---- MODULE Spec2Model ----
(***************************************************************************)
(* A model of the placement decision core of the scheduler: the predicates *)
(* of plugin/pkg/scheduler/algorithm/predicates/predicates.go and the      *)
(* priority functions of plugin/pkg/scheduler/algorithm/priorities.        *)
(*                                                                         *)
(* The functions are pure (apart from the package variable                 *)
(* FailedResourceType), so each family of functions has a specification    *)
(* whose initial states draw the inputs from bounded sets and whose        *)
(* actions apply the functions:                                            *)
(*   SpecTaint  taint / toleration matching (predicate and priorities)     *)
(*   SpecRes    PodFitsResources on one node                               *)
(*   SpecConc   PodFitsResources evaluated by concurrent workers           *)
(*   SpecPrio   the priority functions                                     *)
(* Strings that are only compared are TLA+ strings; taint and toleration   *)
(* values, on which strings.Contains is used, are sequences of characters. *)
(***************************************************************************)
EXTENDS Integers, Sequences, FiniteSets, TLC

VARIABLES
    \* ---- taint / toleration family
    taints,             \* the node's taints ([]api.Taint)
    tolerations,        \* the pod's tolerations ([]api.Toleration)
    tpc,                \* "init", or the function that was applied last
    tFits,              \* result of PodTolerationsMatchNodeTaints
    tCount,             \* result of countIntolerableTaintsPreferNoSchedule
    tMatch,             \* result of compareTaintListWithTolerationList
    \* ---- PodFitsResources on one node
    FailedResourceType, \* the package variable of predicates.go
    rNode,              \* what GetNodeInfo returns: [found, capacity]
    rExisting,          \* existingPods
    rPod,               \* the candidate pod
    rpc,                \* "init" or "done"
    rFits,              \* the returned bool
    rErr,               \* the returned error: "nil" or "err"
    \* ---- PodFitsResources evaluated by concurrent workers
    cNodes,             \* worker -> [capacity, existing]: the node it evaluates
    cPod,               \* the candidate pod of the cycle
    cpc,                \* worker -> "ready", "returned" or "recorded"
    cFits,              \* worker -> the bool PodFitsResources returned
    cReason,            \* worker -> the reject category recorded for its node
    \* ---- priority functions
    pFn,                \* the priority function the inputs are for
    pNodes,             \* what nodeLister.List() returns (nodes.Items)
    pPods,              \* the placed pods (podLister.List(Everything))
    pPod,               \* the candidate pod
    ppc,                \* "init", "once" after one invocation, "again" after more
    pOut,               \* what the last invocation computed: counts, extremes
    pResult,            \* the HostPriorityList of the last invocation
    pErr,               \* whether the last invocation returned an error
    pPrev,              \* the HostPriorityList of the invocation before it
    \* ---- predicates on one node
    qFn,                \* the predicate the inputs are for
    qPod,               \* the candidate pod
    qExisting,          \* existingPods, the pods placed on the node
    qNode,              \* the nodeID the predicate is asked about
    qInfo,              \* the snapshot behind the listers of the predicate
    qpc,                \* "init" or "done"
    qFits,              \* the returned bool
    qErr,               \* the returned error: "nil" or "err"
    qRemoved,           \* the node taken out of the node snapshot, or ""
    qBefore,            \* what the predicate returned before that: [fits, err]
    \* ---- the taint command
    kFn,                \* "parse" for calls of parseTaints, "run" for commands
    kArgs,              \* the arguments of the last call or command
    kNode,              \* the node the server holds: [Name, Taints]
    kOld,               \* the node the last command worked on (what its Get returned)
    kOverwrite,         \* the --overwrite flag of the last command
    kpc,                \* "init" or "done"
    kParsed,            \* what parseTaints returned: [taints, remove, err]
    kErr,               \* the error of the last command, or "nil"
    kSent,              \* whether the last command sent an update of the node
    kCmds,              \* command -> what it holds between its Get and its Update
    kStarted,           \* the number of commands started so far
    \* ---- pods placed one after another
    sFn,                \* "service" or "resources": the predicate that gates
    sInfo,              \* the snapshot: [labels, nodes], or the node [found, capacity]
    sPlaced,            \* the pods placed so far, in the order of placement
    sLast,              \* what the last call returned: [fits, err], or <<>>
    \* ---- the registry of ingresses and ingress points
    gKind,              \* "ingress" or "ingresspoint": the strategy in use
    gStored,            \* the stored object [Spec, Generation, Status], or <<>>
    gChanges,           \* the number of updates whose spec differed from the stored one
    gUpdates            \* the number of updates so far

taintVars == <<taints, tolerations, tpc, tFits, tCount, tMatch>>
resVars == <<rNode, rExisting, rPod, rpc, rFits, rErr>>
concVars == <<cNodes, cPod, cpc, cFits, cReason>>
prioVars == <<pFn, pNodes, pPods, pPod, ppc, pOut, pResult, pErr, pPrev>>

predVars == <<qFn, qPod, qExisting, qNode, qInfo, qpc, qFits, qErr, qRemoved, qBefore>>

cliVars == <<kFn, kArgs, kNode, kOld, kOverwrite, kpc, kParsed, kErr, kSent, kCmds,
            kStarted>>

schedVars == <<sFn, sInfo, sPlaced, sLast>>

regVars == <<gKind, gStored, gChanges, gUpdates>>

vars == <<taintVars, FailedResourceType, resVars, concVars, prioVars, predVars, cliVars,
          schedVars, regVars>>

\* ------------------------------------------------------------------------
\* Generic helpers
\* ------------------------------------------------------------------------

\* Sequences over S of length 0..n.
SeqUpTo(S, n) == UNION {[1..k -> S] : k \in 0..n}

\* strings.Contains(s, substr): substr occurs in s as a contiguous block.
Contains(s, substr) ==
    \E i \in 0..(Len(s) - Len(substr)) :
        \A j \in 1..Len(substr) : s[i + j] = substr[j]

\* ------------------------------------------------------------------------
\* Taints and tolerations
\* ------------------------------------------------------------------------

TaintEffectNoSchedule == "NoSchedule"
TaintEffectPreferNoSchedule == "PreferNoSchedule"
TaintEffectNoExecute == "NoExecute"
TaintEffectNoScheduleNoAdmit == "NoScheduleNoAdmit"
TaintEffectNoScheduleNoAdmitNoExecute == "NoScheduleNoAdmitNoExecute"

TolerationOpEqual == "Equal"
TolerationOpExists == "Exists"

\* Bounds of the taint family.
MaxTaints == 2
MaxTolerations == 2

TaintKeys == {"key1", "key2"}
TaintValues == {<<>>, <<"v", "1">>}
TaintEffects == {TaintEffectNoSchedule, TaintEffectPreferNoSchedule, TaintEffectNoExecute}
TolerationOps == {"", TolerationOpEqual, TolerationOpExists}

TaintSet == [Key : TaintKeys, Value : TaintValues, Effect : TaintEffects]
TolerationSet == [Key : TaintKeys, Value : TaintValues, Operator : TolerationOps,
                  Effect : TaintEffects]

\* The test of the inner loop of PodTolerationsMatchNodeTaints: does
\* toleration r let the loop continue with the next taint?
TolerationMatchesTaint(r, t) ==
    IF r.Operator = TolerationOpEqual \/ r.Operator = ""
    THEN r.Key = t.Key /\ r.Value = t.Value /\ r.Effect = t.Effect
    ELSE IF r.Operator = TolerationOpExists
         THEN r.Key = t.Key /\ r.Effect = t.Effect
         ELSE FALSE

\* The effects whose taints the loop of PodTolerationsMatchNodeTaints checks.
CheckedEffects ==
    {TaintEffectNoSchedule, TaintEffectNoScheduleNoAdmit,
     TaintEffectNoScheduleNoAdmitNoExecute}

PodTolerationsMatchNodeTaints(tols, nodeTaints) ==
    IF Len(tols) = 0
    THEN Len(nodeTaints) = 0
    ELSE IF Len(nodeTaints) = 0
         THEN TRUE
         ELSE \A i \in 1..Len(nodeTaints) :
                 nodeTaints[i].Effect \in CheckedEffects
                     => \E j \in 1..Len(tols) :
                            TolerationMatchesTaint(tols[j], nodeTaints[i])

\* taint_toleration.go: the tolerations with effect PreferNoSchedule, in order.
RECURSIVE getAllTolerationEffectPreferNoSchedule(_)
getAllTolerationEffectPreferNoSchedule(tols) ==
    IF tols = <<>> THEN <<>>
    ELSE LET rest == getAllTolerationEffectPreferNoSchedule(Tail(tols))
         IN  IF Head(tols).Effect = TaintEffectPreferNoSchedule
             THEN <<Head(tols)>> \o rest
             ELSE rest

\* taint_toleration.go: one taint against the filtered toleration list.
TaintIsIntolerable(t, tolList) ==
    ~ \E j \in 1..Len(tolList) :
          /\ tolList[j].Key = t.Key
          /\ \/ /\ tolList[j].Operator \in {"", TolerationOpEqual}
                /\ tolList[j].Value = t.Value
             \/ tolList[j].Operator = TolerationOpExists

countIntolerableTaintsPreferNoSchedule(nodeTaints, tolList) ==
    Cardinality({i \in 1..Len(nodeTaints) :
                    /\ nodeTaints[i].Effect = TaintEffectPreferNoSchedule
                    /\ TaintIsIntolerable(nodeTaints[i], tolList)})

\* taintandtolerationspriority.go keeps the PreferNoSchedule taints and
\* tolerations in maps keyed by Key: a later entry overwrites an earlier one.
\* A map is modelled as a function on the keys that are present.
LastIndexIn(I) == CHOOSE i \in I : \A k \in I : k <= i

getAllTaintEffectPreferNoSchedule(nodeTaints) ==
    LET At(k) == {i \in 1..Len(nodeTaints) :
                     /\ nodeTaints[i].Effect = TaintEffectPreferNoSchedule
                     /\ nodeTaints[i].Key = k}
    IN  [k \in {nodeTaints[i].Key : i \in {j \in 1..Len(nodeTaints) :
                        nodeTaints[j].Effect = TaintEffectPreferNoSchedule}} |->
            nodeTaints[LastIndexIn(At(k))].Value]

getAllTolerationEffectPreferNoScheduleMap(tols) ==
    LET At(k) == {i \in 1..Len(tols) :
                     /\ tols[i].Effect = TaintEffectPreferNoSchedule
                     /\ tols[i].Key = k}
    IN  [k \in {tols[i].Key : i \in {j \in 1..Len(tols) :
                        tols[j].Effect = TaintEffectPreferNoSchedule}} |->
            [value |-> tols[LastIndexIn(At(k))].Value,
             TolerationOperator |-> tols[LastIndexIn(At(k))].Operator]]

compareTaintListWithTolerationList(taintList, tolerationList) ==
    Cardinality({k \in DOMAIN taintList :
        /\ k \in DOMAIN tolerationList
        /\ \/ /\ tolerationList[k].TolerationOperator = TolerationOpEqual
              /\ tolerationList[k].value = taintList[k]
           \/ /\ tolerationList[k].TolerationOperator = TolerationOpExists
              /\ Contains(tolerationList[k].value, taintList[k])})

\* ---- the taint family as a state machine

InitTaintInputs ==
    /\ taints \in SeqUpTo(TaintSet, MaxTaints)
    /\ tolerations \in SeqUpTo(TolerationSet, MaxTolerations)
    /\ tpc = "init"
    /\ tFits = FALSE
    /\ tCount = 0
    /\ tMatch = 0

IdleTaint ==
    /\ taints = <<>>
    /\ tolerations = <<>>
    /\ tpc = "idle"
    /\ tFits = FALSE
    /\ tCount = 0
    /\ tMatch = 0

\* TolerationMatch.PodToleratesTaints with a node the lookup finds.
PodToleratesTaints ==
    /\ tpc = "init"
    /\ tFits' = PodTolerationsMatchNodeTaints(tolerations, taints)
    /\ tpc' = "PodToleratesTaints"
    /\ UNCHANGED <<taints, tolerations, tCount, tMatch>>
    /\ UNCHANGED <<FailedResourceType, resVars, concVars, prioVars, predVars, cliVars,
                 schedVars, regVars>>

\* The count of one node in TaintToleration.ComputeTaintTolerationPriority.
CountIntolerable ==
    /\ tpc = "init"
    /\ tCount' = countIntolerableTaintsPreferNoSchedule(
                     taints, getAllTolerationEffectPreferNoSchedule(tolerations))
    /\ tpc' = "countIntolerable"
    /\ UNCHANGED <<taints, tolerations, tFits, tMatch>>
    /\ UNCHANGED <<FailedResourceType, resVars, concVars, prioVars, predVars, cliVars,
                 schedVars, regVars>>

\* The count of one node in calculateNodesPriority.
CompareTaintList ==
    /\ tpc = "init"
    /\ tMatch' = compareTaintListWithTolerationList(
                     getAllTaintEffectPreferNoSchedule(taints),
                     getAllTolerationEffectPreferNoScheduleMap(tolerations))
    /\ tpc' = "compareTaintList"
    /\ UNCHANGED <<taints, tolerations, tFits, tCount>>
    /\ UNCHANGED <<FailedResourceType, resVars, concVars, prioVars, predVars, cliVars,
                 schedVars, regVars>>

\* ------------------------------------------------------------------------
\* PodFitsResources
\* ------------------------------------------------------------------------

\* Bounds of the resource family.
MaxRequest == 1
MaxCapacity == 2
MaxExisting == 2

PodExceedsMaxPodNumber == "PodExceedsMaxPodNumber"
PodExceedsFreeCPU == "PodExceedsFreeCPU"
PodExceedsFreeMemory == "PodExceedsFreeMemory"

\* A container's resource requests; a pod is the sequence of its containers.
ContainerSet == [milliCPU : 0..MaxRequest, memory : 0..MaxRequest]
CandidatePodSet == SeqUpTo(ContainerSet, 2)
ExistingPodSet == [1..1 -> ContainerSet]
CapacitySet == [pods : 0..(MaxCapacity + 1), cpu : 0..MaxCapacity, memory : 0..MaxCapacity]

\* Mutant of getResourceRequest: only the first container is counted.
M_getResourceRequest(pod) ==
    IF pod = <<>> THEN [milliCPU |-> 0, memory |-> 0]
    ELSE [milliCPU |-> Head(pod).milliCPU, memory |-> Head(pod).memory]

RECURSIVE getResourceRequest(_)
getResourceRequest(pod) ==
    IF pod = <<>> THEN [milliCPU |-> 0, memory |-> 0]
    ELSE LET rest == getResourceRequest(Tail(pod))
         IN  [milliCPU |-> Head(pod).milliCPU + rest.milliCPU,
              memory   |-> Head(pod).memory + rest.memory]

\* The loop of CheckPodsExceedingFreeResources from pod i on, with the
\* requests of the pods that fitted so far.
RECURSIVE CheckPodsFrom(_, _, _, _, _)
CheckPodsFrom(pods, capacity, i, milliCPURequested, memoryRequested) ==
    IF i > Len(pods)
    THEN [fitting |-> <<>>, notFittingCPU |-> <<>>, notFittingMemory |-> <<>>]
    ELSE LET podRequest == getResourceRequest(pods[i])
             fitsCPU == capacity.cpu = 0
                        \/ (capacity.cpu - milliCPURequested) >= podRequest.milliCPU
             fitsMemory == capacity.memory = 0
                           \/ (capacity.memory - memoryRequested) >= podRequest.memory
         IN  IF ~fitsCPU
             THEN LET r == CheckPodsFrom(pods, capacity, i + 1,
                                         milliCPURequested, memoryRequested)
                  IN  [r EXCEPT !.notFittingCPU = <<pods[i]>> \o @]
             ELSE IF ~fitsMemory
             THEN LET r == CheckPodsFrom(pods, capacity, i + 1,
                                         milliCPURequested, memoryRequested)
                  IN  [r EXCEPT !.notFittingMemory = <<pods[i]>> \o @]
             ELSE LET r == CheckPodsFrom(pods, capacity, i + 1,
                                         milliCPURequested + podRequest.milliCPU,
                                         memoryRequested + podRequest.memory)
                  IN  [r EXCEPT !.fitting = <<pods[i]>> \o @]

CheckPodsExceedingFreeResources(pods, capacity) ==
    CheckPodsFrom(pods, capacity, 1, 0, 0)

\* Mutant of PodFitsResources: a call that accepts clears FailedResourceType.
M_PodFitsResourcesClears(pod, existingPods, node, failed) ==
    IF ~node.found
    THEN [fits |-> FALSE, err |-> "err", failed |-> failed]
    ELSE IF Len(existingPods) + 1 > node.capacity.pods
    THEN [fits |-> FALSE, err |-> "nil", failed |-> PodExceedsMaxPodNumber]
    ELSE LET podRequest == getResourceRequest(pod)
         IN  IF podRequest.milliCPU = 0 /\ podRequest.memory = 0
             THEN [fits |-> TRUE, err |-> "nil", failed |-> ""]
             ELSE LET pods == Append(existingPods, pod)
                      c == CheckPodsExceedingFreeResources(pods, node.capacity)
                  IN  IF Len(c.notFittingCPU) > 0
                      THEN [fits |-> FALSE, err |-> "nil", failed |-> PodExceedsFreeCPU]
                      ELSE IF Len(c.notFittingMemory) > 0
                      THEN [fits |-> FALSE, err |-> "nil", failed |-> PodExceedsFreeMemory]
                      ELSE [fits |-> TRUE, err |-> "nil", failed |-> ""]

\* Mutant of PodFitsResources: a pod without requests goes through the
\* capacity check like any other pod.
M_PodFitsResources(pod, existingPods, node, failed) ==
    IF ~node.found
    THEN [fits |-> FALSE, err |-> "err", failed |-> failed]
    ELSE IF Len(existingPods) + 1 > node.capacity.pods
    THEN [fits |-> FALSE, err |-> "nil", failed |-> PodExceedsMaxPodNumber]
    ELSE LET pods == Append(existingPods, pod)
             c == CheckPodsExceedingFreeResources(pods, node.capacity)
         IN  IF Len(c.notFittingCPU) > 0
             THEN [fits |-> FALSE, err |-> "nil", failed |-> PodExceedsFreeCPU]
             ELSE IF Len(c.notFittingMemory) > 0
             THEN [fits |-> FALSE, err |-> "nil", failed |-> PodExceedsFreeMemory]
             ELSE [fits |-> TRUE, err |-> "nil", failed |-> failed]

\* ResourceFit.PodFitsResources: the returned (fits, err) and the value the
\* call leaves in FailedResourceType, which was `failed` before the call.
PodFitsResources(pod, existingPods, node, failed) ==
    IF ~node.found
    THEN [fits |-> FALSE, err |-> "err", failed |-> failed]
    ELSE IF Len(existingPods) + 1 > node.capacity.pods
    THEN [fits |-> FALSE, err |-> "nil", failed |-> PodExceedsMaxPodNumber]
    ELSE LET podRequest == getResourceRequest(pod)
         IN  IF podRequest.milliCPU = 0 /\ podRequest.memory = 0
             THEN [fits |-> TRUE, err |-> "nil", failed |-> failed]
             ELSE LET pods == Append(existingPods, pod)
                      c == CheckPodsExceedingFreeResources(pods, node.capacity)
                  IN  IF Len(c.notFittingCPU) > 0
                      THEN [fits |-> FALSE, err |-> "nil", failed |-> PodExceedsFreeCPU]
                      ELSE IF Len(c.notFittingMemory) > 0
                      THEN [fits |-> FALSE, err |-> "nil", failed |-> PodExceedsFreeMemory]
                      ELSE [fits |-> TRUE, err |-> "nil", failed |-> failed]

\* ---- one call of PodFitsResources

NoNode == [found |-> FALSE, capacity |-> [pods |-> 0, cpu |-> 0, memory |-> 0]]

InitResInputs ==
    /\ rNode \in {[found |-> TRUE, capacity |-> c] : c \in CapacitySet} \cup {NoNode}
    /\ rExisting \in SeqUpTo(ExistingPodSet, MaxExisting)
    /\ rPod \in CandidatePodSet
    /\ rpc = "init"
    /\ rFits = FALSE
    /\ rErr = "nil"

IdleRes ==
    /\ rNode = NoNode
    /\ rExisting = <<>>
    /\ rPod = <<>>
    /\ rpc = "idle"
    /\ rFits = FALSE
    /\ rErr = "nil"

CallPodFitsResources ==
    /\ rpc = "init"
    /\ LET r == PodFitsResources(rPod, rExisting, rNode, FailedResourceType)
       IN  /\ rFits' = r.fits
           /\ rErr' = r.err
           /\ FailedResourceType' = r.failed
    /\ rpc' = "done"
    /\ UNCHANGED <<rNode, rExisting, rPod>>
    /\ UNCHANGED <<taintVars, concVars, prioVars, predVars, cliVars,
                 schedVars, regVars>>

\* ---- PodFitsResources for the nodes of one cycle, one worker per node

NumWorkers == 2

Workers == 1..NumWorkers

ConcCapacitySet == [pods : 1..2, cpu : 0..1, memory : 0..1]
ConcNodeSet == [capacity : ConcCapacitySet, existing : SeqUpTo(ExistingPodSet, 1)]

InitConcInputs ==
    /\ cNodes \in [Workers -> ConcNodeSet]
    /\ cPod \in [1..1 -> ContainerSet]
    /\ cpc = [w \in Workers |-> "ready"]
    /\ cFits = [w \in Workers |-> FALSE]
    /\ cReason = [w \in Workers |-> ""]

IdleConc ==
    /\ cNodes = <<>>
    /\ cPod = <<>>
    /\ cpc = <<>>
    /\ cFits = <<>>
    /\ cReason = <<>>

\* Worker w calls PodFitsResources for its node; the call writes the package
\* variable when it rejects.
Evaluate(w) ==
    /\ cpc[w] = "ready"
    /\ LET r == PodFitsResources(cPod, cNodes[w].existing,
                                 [found |-> TRUE, capacity |-> cNodes[w].capacity],
                                 FailedResourceType)
       IN  /\ cFits' = [cFits EXCEPT ![w] = r.fits]
           /\ FailedResourceType' = r.failed
    /\ cpc' = [cpc EXCEPT ![w] = "returned"]
    /\ UNCHANGED <<cNodes, cPod, cReason>>
    /\ UNCHANGED <<taintVars, resVars, prioVars, predVars, cliVars,
                 schedVars, regVars>>

\* The caller of the predicate takes the reject category of the node from
\* the package variable after the call has returned false.
RecordReason(w) ==
    /\ cpc[w] = "returned"
    /\ cReason' = [cReason EXCEPT ![w] = IF cFits[w] THEN "" ELSE FailedResourceType]
    /\ cpc' = [cpc EXCEPT ![w] = "recorded"]
    /\ UNCHANGED <<cNodes, cPod, cFits, FailedResourceType>>
    /\ UNCHANGED <<taintVars, resVars, prioVars, predVars, cliVars,
                 schedVars, regVars>>

\* ------------------------------------------------------------------------
\* Labels, selectors and affinity terms
\* ------------------------------------------------------------------------

\* A label map is a function on the keys that are present; a missing key
\* reads as the empty string, as in Go.
GetLabel(labelMap, k) == IF k \in DOMAIN labelMap THEN labelMap[k] ELSE ""

\* One requirement (key, operator, values) of a selector against a label map.
RequirementMatches(r, labelMap) ==
    CASE r.operator = "In" ->
            r.key \in DOMAIN labelMap /\ labelMap[r.key] \in r.values
      [] r.operator = "NotIn" ->
            r.key \notin DOMAIN labelMap \/ labelMap[r.key] \notin r.values
      [] r.operator = "Exists" -> r.key \in DOMAIN labelMap
      [] r.operator = "DoesNotExist" -> r.key \notin DOMAIN labelMap
      [] OTHER -> FALSE

\* Selector.Matches: every requirement holds. A selector is [err, reqs]:
\* err says that the requirements cannot be turned into a selector.
SelectorMatches(selector, labelMap) ==
    \A i \in 1..Len(selector.reqs) : RequirementMatches(selector.reqs[i], labelMap)

RECURSIVE SeqSum(_)
SeqSum(s) == IF s = <<>> THEN 0 ELSE Head(s) + SeqSum(Tail(s))

\* util.GetNamespacesFromPodAffinityTerm; Namespaces is [isNil, names].
GetNamespacesFromPodAffinityTerm(pod, podAffinityTerm) ==
    IF podAffinityTerm.Namespaces.isNil
    THEN {pod.Namespace}
    ELSE podAffinityTerm.Namespaces.names

\* util.FilterPodsByNameSpaces
FilterPodsByNameSpaces(names, pods) ==
    IF Len(pods) = 0 \/ names = {}
    THEN pods
    ELSE LET In(p) == p.Namespace \in names IN SelectSeq(pods, In)

\* util.NodesHaveSameTopologyKey
NodesHaveSameTopologyKey(nodeA, nodeB, topologyKey) ==
    IF topologyKey = ""
    THEN TRUE
    ELSE /\ GetLabel(nodeA.Labels, topologyKey) # ""
         /\ GetLabel(nodeA.Labels, topologyKey) = GetLabel(nodeB.Labels, topologyKey)

\* StaticNodeInfo.GetNodeInfo over the listed nodes: the first node of that
\* name, or an error.
NodeFound(nodes, nodeID) == \E i \in 1..Len(nodes) : nodes[i].Name = nodeID

GetNodeInfo(nodes, nodeID) ==
    nodes[CHOOSE i \in 1..Len(nodes) :
              /\ nodes[i].Name = nodeID
              /\ \A k \in 1..(i - 1) : nodes[k].Name # nodeID]

\* ------------------------------------------------------------------------
\* InterPodAffinity.CalculateInterPodAffinityPriority (interpod_affinity.go)
\* ------------------------------------------------------------------------

HardPodAffinityImplicitWeight == 1

\* [count, err]
countPodsThatMatchPodAffinityTerm(nodes, pod, podsForMatching, node, podAffinityTerm) ==
    IF podAffinityTerm.LabelSelector.err
    THEN [count |-> 0, err |-> TRUE]
    ELSE LET names == GetNamespacesFromPodAffinityTerm(pod, podAffinityTerm)
             filteredPods == FilterPodsByNameSpaces(names, podsForMatching)
             matching == {i \in 1..Len(filteredPods) :
                             SelectorMatches(podAffinityTerm.LabelSelector,
                                             filteredPods[i].Labels)}
         IN  IF \E i \in matching : ~NodeFound(nodes, filteredPods[i].NodeName)
             THEN [count |-> 0, err |-> TRUE]
             ELSE [count |-> Cardinality({i \in matching :
                                NodesHaveSameTopologyKey(
                                    GetNodeInfo(nodes, filteredPods[i].NodeName),
                                    node, podAffinityTerm.TopologyKey)}),
                   err |-> FALSE]

\* TopologyCounts.GetIndex formats "key, value"; keys and values of labels
\* hold neither a comma nor a blank, so the index is the pair.
GetIndex(topologyKey, topologyValue) == <<topologyKey, topologyValue>>

\* TopologyCounts.CountWeightByTopologykey: the indexes whose count grows
\* by the weight.
CountWeightByTopologykey(node, topologyKey) ==
    IF topologyKey = ""
    THEN {GetIndex(k, node.Labels[k]) : k \in DOMAIN node.Labels}
    ELSE IF GetLabel(node.Labels, topologyKey) # ""
         THEN {GetIndex(topologyKey, node.Labels[topologyKey])}
         ELSE {}

\* TopologyCounts.CountWeightByPodMatchAffinityTerm: [err, weight, indexes],
\* the weight the call adds and the indexes it adds it to.
CountWeightByPodMatchAffinityTerm(nodes, pod, podsForMatching, weight, podAffinityTerm, node) ==
    IF weight = 0
    THEN [err |-> FALSE, weight |-> 0, indexes |-> {}]
    ELSE LET m == countPodsThatMatchPodAffinityTerm(nodes, pod, podsForMatching,
                                                    node, podAffinityTerm)
         IN  IF m.err
             THEN [err |-> TRUE, weight |-> 0, indexes |-> {}]
             ELSE IF m.count > 0
                  THEN [err |-> FALSE, weight |-> weight * m.count,
                        indexes |-> CountWeightByTopologykey(
                                        node, podAffinityTerm.TopologyKey)]
                  ELSE [err |-> FALSE, weight |-> 0, indexes |-> {}]

\* The calls of CountWeightByPodMatchAffinityTerm that the loop body makes
\* for one node, in order: [weight, term, pods]. An affinity is
\* [err, Required, Preferred, AntiPreferred]; a nil PodAffinity or
\* PodAntiAffinity is the same as one without terms.
WeightedCalls(weightedTerms, sign, podsForMatching) ==
    [i \in 1..Len(weightedTerms) |->
        [weight |-> sign * weightedTerms[i].Weight,
         term   |-> weightedTerms[i].PodAffinityTerm,
         pods   |-> podsForMatching]]

ExistingPodCalls(ep) ==
    IF ep.Affinity.err THEN <<>>
    ELSE [i \in 1..Len(ep.Affinity.Required) |->
             [weight |-> HardPodAffinityImplicitWeight,
              term   |-> ep.Affinity.Required[i],
              pods   |-> <<ep>>]]
         \o WeightedCalls(ep.Affinity.Preferred, 1, <<ep>>)
         \o WeightedCalls(ep.Affinity.AntiPreferred, 0 - 1, <<ep>>)

RECURSIVE AllExistingPodCalls(_)
AllExistingPodCalls(allPods) ==
    IF allPods = <<>> THEN <<>>
    ELSE ExistingPodCalls(Head(allPods)) \o AllExistingPodCalls(Tail(allPods))

NodeCalls(pod, allPods) ==
    WeightedCalls(pod.Affinity.Preferred, 1, allPods)
    \o WeightedCalls(pod.Affinity.AntiPreferred, 0 - 1, allPods)
    \o AllExistingPodCalls(allPods)

AllIndexes(nodes) ==
    UNION {{GetIndex(k, nodes[i].Labels[k]) : k \in DOMAIN nodes[i].Labels} :
              i \in 1..Len(nodes)}

\* The first loop of CalculateInterPodAffinityPriority: [err, counts], the
\* topologyCounts map as a function on all indexes (0 where nothing was added).
TopologyCountsOf(pod, nodes, allPods) ==
    LET calls == NodeCalls(pod, allPods)
        done == [n \in 1..Len(nodes) |->
                    [c \in 1..Len(calls) |->
                        CountWeightByPodMatchAffinityTerm(
                            nodes, pod, calls[c].pods, calls[c].weight,
                            calls[c].term, nodes[n])]]
        Added(n, c, index) ==
            IF index \in done[n][c].indexes THEN done[n][c].weight ELSE 0
    IN  [err |-> \/ pod.Affinity.err
                 \/ (Len(nodes) > 0 /\ \E j \in 1..Len(allPods) : allPods[j].Affinity.err)
                 \/ \E n \in 1..Len(nodes) : \E c \in 1..Len(calls) : done[n][c].err,
         counts |-> [index \in AllIndexes(nodes) |->
                        SeqSum([n \in 1..Len(nodes) |->
                            SeqSum([c \in 1..Len(calls) |-> Added(n, c, index)])])]]

NodeNamesOf(nodes) == {nodes[i].Name : i \in 1..Len(nodes)}

\* The body of the conversion loop for one countIndex, from node j on:
\* acc is [counts, maxCount, minCount].
RECURSIVE ConvertIndexFrom(_, _, _, _, _)
ConvertIndexFrom(nodes, countIndex, count, j, acc) ==
    IF j > Len(nodes) THEN acc
    ELSE IF countIndex \in CountWeightByTopologykey(nodes[j], "")
         THEN LET name == nodes[j].Name
                  new == acc.counts[name] + count
              IN  ConvertIndexFrom(nodes, countIndex, count, j + 1,
                      [counts   |-> [acc.counts EXCEPT ![name] = new],
                       maxCount |-> IF new > acc.maxCount THEN new ELSE acc.maxCount,
                       minCount |-> IF new < acc.minCount THEN new ELSE acc.minCount])
         ELSE ConvertIndexFrom(nodes, countIndex, count, j + 1, acc)

\* The conversion loop, visiting the entries of topologyCounts in `order`.
RECURSIVE ConvertFrom(_, _, _, _, _)
ConvertFrom(nodes, topologyCounts, order, i, acc) ==
    IF i > Len(order) THEN acc
    ELSE ConvertFrom(nodes, topologyCounts, order, i + 1,
             ConvertIndexFrom(nodes, order[i], topologyCounts[order[i]], 1, acc))

\* Mutant of InterPodScore: the smallest count is not subtracted.
M_InterPodScore(count, maxCount, minCount) ==
    IF (maxCount - minCount) > 0
    THEN (10 * count) \div (maxCount - minCount)
    ELSE 0

\* int(10 * (float64(count-minCount) / float64(maxCount-minCount))): for
\* 0 <= count-minCount <= maxCount-minCount < 1500 the float64 product
\* truncates to the integer quotient.
InterPodScore(count, maxCount, minCount) ==
    IF (maxCount - minCount) > 0
    THEN (10 * (count - minCount)) \div (maxCount - minCount)
    ELSE 0

\* The orders in which a map with the key set S can be visited.
Orders(S) ==
    {o \in [1..Cardinality(S) -> S] : \A i, j \in 1..Cardinality(S) : i # j => o[i] # o[j]}

\* The entries of topologyCounts whose visit changes something.
VisitedIndexes(topologyCounts) ==
    {index \in DOMAIN topologyCounts : topologyCounts[index] # 0}

\* The conversion and the scores for one order of visiting topologyCounts.
ConvertAndScore(nodes, topologyCounts, order) ==
    LET acc == ConvertFrom(nodes, topologyCounts, order, 1,
                   [counts |-> [name \in NodeNamesOf(nodes) |-> 0],
                    maxCount |-> 0, minCount |-> 0])
    IN  [err |-> FALSE,
         out |-> [topologyCounts |-> topologyCounts, counts |-> acc.counts,
                  maxCount |-> acc.maxCount, minCount |-> acc.minCount],
         result |-> [i \in 1..Len(nodes) |->
                        [Host |-> nodes[i].Name,
                         Score |-> InterPodScore(acc.counts[nodes[i].Name],
                                                 acc.maxCount, acc.minCount)]]]

\* What the function can return: the map topologyCounts is visited in an
\* order the runtime picks, so there is one outcome per order.
CalculateInterPodAffinityPriority(pod, nodes, allPods) ==
    LET tc == TopologyCountsOf(pod, nodes, allPods)
    IN  IF tc.err
        THEN {[err |-> TRUE, out |-> <<>>, result |-> <<>>]}
        ELSE {ConvertAndScore(nodes, tc.counts, order) :
                  order \in Orders(VisitedIndexes(tc.counts))}

\* ------------------------------------------------------------------------
\* NodeAffinity.CalculateNodeAffinityPriority
\* ------------------------------------------------------------------------

\* Mutant of NodeAffinityTermFrom: a matching term counts 1, not its weight.
RECURSIVE M_NodeAffinityTermFrom(_, _, _, _)
M_NodeAffinityTermFrom(nodes, term, j, acc) ==
    IF j > Len(nodes) THEN acc
    ELSE LET name == nodes[j].Name
             new == IF SelectorMatches(term.MatchExpressions, nodes[j].Labels)
                    THEN acc.counts[name] + 1
                    ELSE acc.counts[name]
         IN  M_NodeAffinityTermFrom(nodes, term, j + 1,
                 [counts   |-> [acc.counts EXCEPT ![name] = new],
                  maxCount |-> IF new > acc.maxCount THEN new ELSE acc.maxCount])

\* The loop over the nodes for one term, from node j on: acc is [counts, maxCount].
RECURSIVE NodeAffinityTermFrom(_, _, _, _)
NodeAffinityTermFrom(nodes, term, j, acc) ==
    IF j > Len(nodes) THEN acc
    ELSE LET name == nodes[j].Name
             new == IF SelectorMatches(term.MatchExpressions, nodes[j].Labels)
                    THEN acc.counts[name] + term.Weight
                    ELSE acc.counts[name]
         IN  NodeAffinityTermFrom(nodes, term, j + 1,
                 [counts   |-> [acc.counts EXCEPT ![name] = new],
                  maxCount |-> IF new > acc.maxCount THEN new ELSE acc.maxCount])

RECURSIVE NodeAffinityFrom(_, _, _, _)
NodeAffinityFrom(nodes, terms, i, acc) ==
    IF i > Len(terms) THEN acc
    ELSE IF terms[i].Weight = 0 \/ terms[i].MatchExpressions.err
         THEN NodeAffinityFrom(nodes, terms, i + 1, acc)
         ELSE NodeAffinityFrom(nodes, terms, i + 1,
                  NodeAffinityTermFrom(nodes, terms[i], 1, acc))

\* Mutant of NodeAffinityScore: the weight sum is not divided by the largest.
M_NodeAffinityScore(count, maxCount) ==
    IF maxCount > 0 THEN 10 * count ELSE 0

\* int(10 * (float32(count) / float32(maxCount))): for 0 <= count <= maxCount
\* < 1500 the float32 product truncates to the integer quotient.
NodeAffinityScore(count, maxCount) ==
    IF maxCount > 0 THEN (10 * count) \div maxCount ELSE 0

CalculateNodeAffinityPriority(pod, nodes) ==
    LET acc == NodeAffinityFrom(nodes, pod.SoftNodeAffinity, 1,
                   [counts |-> [name \in NodeNamesOf(nodes) |-> 0], maxCount |-> 0])
    IN  [err |-> FALSE,
         out |-> [counts |-> acc.counts, maxCount |-> acc.maxCount],
         result |-> [i \in 1..Len(nodes) |->
                        [Host |-> nodes[i].Name,
                         Score |-> NodeAffinityScore(acc.counts[nodes[i].Name],
                                                     acc.maxCount)]]]

\* ------------------------------------------------------------------------
\* TaintToleration.ComputeTaintTolerationPriority (taint_toleration.go)
\* ------------------------------------------------------------------------

maxPriority == 10

\* int((1.0 - float64(count)/float64(maxCount)) * 10): the float64 result
\* lies just below the exact one when count/maxCount is 4/5 or 9/10
\* (1.0 - 0.8 is 0.19999999999999996), and truncates one lower there; for
\* every other 0 <= count <= maxCount < 3000 it truncates to the integer
\* quotient.
TaintTolerationScore(count, maxCount) ==
    IF maxCount > 0
    THEN LET exact == (10 * (maxCount - count)) \div maxCount
         IN  IF 5 * count = 4 * maxCount \/ 10 * count = 9 * maxCount
             THEN exact - 1
             ELSE exact
    ELSE maxPriority

\* The first loop over the nodes, from node j on: acc is [counts, maxCount].
RECURSIVE TaintCountsFrom(_, _, _, _)
TaintCountsFrom(nodes, tolerationList, j, acc) ==
    IF j > Len(nodes) THEN acc
    ELSE LET count == countIntolerableTaintsPreferNoSchedule(nodes[j].Taints,
                                                            tolerationList)
         IN  TaintCountsFrom(nodes, tolerationList, j + 1,
                 [counts   |-> [acc.counts EXCEPT ![nodes[j].Name] = count],
                  maxCount |-> IF count > acc.maxCount THEN count ELSE acc.maxCount])

ComputeTaintTolerationPriority(pod, nodes) ==
    LET tolerationList == getAllTolerationEffectPreferNoSchedule(pod.Tolerations)
        acc == TaintCountsFrom(nodes, tolerationList, 1,
                   [counts |-> [name \in NodeNamesOf(nodes) |-> 0], maxCount |-> 0])
    IN  [err |-> FALSE,
         out |-> [counts |-> acc.counts, maxCount |-> acc.maxCount],
         result |-> [i \in 1..Len(nodes) |->
                        [Host |-> nodes[i].Name,
                         Score |-> TaintTolerationScore(acc.counts[nodes[i].Name],
                                                        acc.maxCount)]]]

\* ------------------------------------------------------------------------
\* ServiceAffinity.CalculateAffinityPriority
\* ------------------------------------------------------------------------

\* A placed pod as ServiceAffinity reads it.
PeerPod(namespace, podLabels, nodeName) ==
    [Namespace |-> namespace, Labels |-> podLabels, NodeName |-> nodeName]

\* The labels of onePod that the affinitySelector has with the same value.
MatchedLabels(affinitySelector, onePod) ==
    {key \in DOMAIN onePod.Labels :
        key \in DOMAIN affinitySelector /\ affinitySelector[key] = onePod.Labels[key]}

\* The loop over allPods, from pod i on: acc is [counts, maxCount].
RECURSIVE ServiceAffinityFrom(_, _, _, _)
ServiceAffinityFrom(pod, allPods, i, acc) ==
    IF i > Len(allPods) THEN acc
    ELSE LET onePod == allPods[i]
             host == onePod.NodeName
             matched == Cardinality(MatchedLabels(pod.AffinitySelector, onePod))
         IN  IF onePod.Namespace # pod.Namespace \/ matched = 0
             THEN ServiceAffinityFrom(pod, allPods, i + 1, acc)
             ELSE LET new == acc.counts[host] + matched
                  IN  ServiceAffinityFrom(pod, allPods, i + 1,
                          [counts   |-> [acc.counts EXCEPT ![host] = new],
                           maxCount |-> IF new > acc.maxCount THEN new
                                        ELSE acc.maxCount])

\* Mutant of ServiceAffinityScore: the score without matches is 10.
M_ServiceAffinityScore(count, maxCount) ==
    IF maxCount > 0 THEN (10 * count) \div maxCount ELSE 10

\* int(10 * (float32(count) / float32(maxCount))): for 0 <= count <= maxCount
\* < 1500 the float32 product truncates to the integer quotient.
ServiceAffinityScore(count, maxCount) ==
    IF maxCount > 0 THEN (10 * count) \div maxCount ELSE 0

CalculateAffinityPriority(pod, allPods, minions) ==
    LET hosts == NodeNamesOf(minions) \cup {allPods[i].NodeName : i \in 1..Len(allPods)}
        acc == ServiceAffinityFrom(pod, allPods, 1,
                   [counts |-> [name \in hosts |-> 0], maxCount |-> 0])
    IN  [err |-> FALSE,
         out |-> [counts |-> acc.counts, maxCount |-> acc.maxCount],
         result |-> [i \in 1..Len(minions) |->
                        [Host |-> minions[i].Name,
                         Score |-> ServiceAffinityScore(acc.counts[minions[i].Name],
                                                        acc.maxCount)]]]

\* ------------------------------------------------------------------------
\* Inputs of the priority functions
\* ------------------------------------------------------------------------

\* Bounds of the priority family.
MaxNodes == 2
MaxPlaced == 2
MaxWeight == 2
MaxSoftTerms == 2
MaxPrefTaints == 5

NodeNames == <<"machine1", "machine2", "machine3", "machine4">>
UnknownNode == "machine0"

NoLabels == [k \in {} |-> ""]
China == [region |-> "China"]
India == [region |-> "India"]
ChinaAz1 == [region |-> "China", az |-> "az1"]

\* The label maps of the nodes of a cluster, node by node.
Clusters ==
    {<<China>>, <<ChinaAz1>>, <<China, China>>, <<China, India>>,
     <<ChinaAz1, India>>, <<China, NoLabels>>, <<ChinaAz1, China>>,
     <<China, China, India>>}
SmallClusters == {<<China>>, <<China, China>>, <<China, India>>, <<ChinaAz1, India>>}
PodLabelSets == {[security |-> "S1"], [security |-> "S2"]}
TopologyKeys == {"region", "az", ""}
Weights == 1..MaxWeight

NoAffinity == [err |-> FALSE, Required |-> <<>>, Preferred |-> <<>>,
               AntiPreferred |-> <<>>]
BadAffinity == [NoAffinity EXCEPT !.err = TRUE]

\* The selector "security in (S1)" of the affinity terms.
SecurityS1 ==
    [err |-> FALSE,
     reqs |-> <<[key |-> "security", operator |-> "In", values |-> {"S1"}]>>]
BadSelector == [err |-> TRUE, reqs |-> <<>>]

NilNamespaces == [isNil |-> TRUE, names |-> {}]
AllNamespaces == [isNil |-> FALSE, names |-> {}]

AffinityTerm(selector, namespaces, topologyKey) ==
    [LabelSelector |-> selector, Namespaces |-> namespaces,
     TopologyKey |-> topologyKey]

WeightedTerm(weight, term) == [Weight |-> weight, PodAffinityTerm |-> term]

\* The nodes machine1, machine2, ... with the given labels and taints.
NodeList(labelList, taintList) ==
    [i \in 1..Len(labelList) |->
        [Name |-> NodeNames[i], Labels |-> labelList[i], Taints |-> taintList[i]]]

Untainted(labelList) == NodeList(labelList, [i \in 1..Len(labelList) |-> <<>>])

\* 1..MaxNodes nodes without labels, with taints from taintLists.
TaintedNodeLists(taintLists) ==
    UNION {{NodeList([i \in 1..n |-> NoLabels], t) : t \in [1..n -> taintLists]} :
           n \in 1..MaxNodes}

NamesIn(nodes) == {nodes[i].Name : i \in 1..Len(nodes)}

PlainPod(namespace, podLabels, nodeName, affinity) ==
    [Namespace |-> namespace, Labels |-> podLabels, NodeName |-> nodeName,
     Affinity |-> affinity, SoftNodeAffinity |-> <<>>, Tolerations |-> <<>>]

\* Candidate pods that carry preferred (anti-)affinity terms themselves.
CandidateWeighted(terms) ==
    {<<>>} \cup {<<WeightedTerm(w, t)>> : w \in Weights, t \in terms}

PreferredTerms ==
    {AffinityTerm(SecurityS1, NilNamespaces, k) : k \in TopologyKeys}
    \cup {AffinityTerm(SecurityS1, AllNamespaces, "region")}

AntiPreferredTerms ==
    {AffinityTerm(SecurityS1, NilNamespaces, k) : k \in {"region", "az"}}

ForwardCandidates ==
    {PlainPod("ns1", [security |-> "S1"], "", BadAffinity),
     PlainPod("ns1", [security |-> "S1"], "",
              [NoAffinity EXCEPT !.Preferred =
                  <<WeightedTerm(1, AffinityTerm(BadSelector, NilNamespaces, "region"))>>])}
    \cup
    {PlainPod("ns1", [security |-> "S1"], "",
              [err |-> FALSE, Required |-> <<>>, Preferred |-> p, AntiPreferred |-> a]) :
         p \in CandidateWeighted(PreferredTerms),
         a \in CandidateWeighted(AntiPreferredTerms)}

\* Placed pods without affinity of their own.
ForwardPlaced(nodes) ==
    {PlainPod("ns1", [security |-> "S1"], UnknownNode, NoAffinity),
     PlainPod("ns2", [security |-> "S1"], nodes[1].Name, NoAffinity)}
    \cup
    {PlainPod("ns1", l, name, NoAffinity) :
         l \in PodLabelSets, name \in NamesIn(nodes)}

\* Placed pods that carry one term on the topology key region: a required
\* one, a preferred one or a preferred anti-affinity one.
OwnTerm == AffinityTerm(SecurityS1, NilNamespaces, "region")

OwnAffinities ==
    {[NoAffinity EXCEPT !.Required = <<OwnTerm>>]}
    \cup {[NoAffinity EXCEPT !.Preferred = <<WeightedTerm(w, OwnTerm)>>] : w \in Weights}
    \cup {[NoAffinity EXCEPT !.AntiPreferred = <<WeightedTerm(w, OwnTerm)>>] : w \in Weights}

SymmetricPlaced(nodes) ==
    {PlainPod("ns1", l, name, a) :
         l \in PodLabelSets, name \in NamesIn(nodes), a \in OwnAffinities}

SymmetricCandidates == {PlainPod("ns1", l, "", NoAffinity) : l \in PodLabelSets}

\* Placed pods of which one has an affinity annotation that cannot be parsed,
\* one has no affinity and one requires the candidate in its region.
MalformedPlaced(nodes) ==
    {PlainPod("ns1", [security |-> "S1"], nodes[1].Name, BadAffinity),
     PlainPod("ns1", [security |-> "S1"], nodes[1].Name, NoAffinity),
     PlainPod("ns1", [security |-> "S2"], nodes[2].Name,
              [NoAffinity EXCEPT !.Required = <<OwnTerm>>])}

MalformedCandidates ==
    {PlainPod("ns1", [security |-> "S1"], "", NoAffinity),
     PlainPod("ns1", [security |-> "S1"], "",
              [NoAffinity EXCEPT !.Preferred = <<WeightedTerm(1, OwnTerm)>>])}

\* Node-affinity terms.
NodeSelectors ==
    {[err |-> FALSE, reqs |-> <<>>],
     [err |-> TRUE, reqs |-> <<>>],
     [err |-> FALSE,
      reqs |-> <<[key |-> "region", operator |-> "In", values |-> {"China"}]>>],
     [err |-> FALSE,
      reqs |-> <<[key |-> "region", operator |-> "NotIn", values |-> {"China"}]>>],
     [err |-> FALSE,
      reqs |-> <<[key |-> "az", operator |-> "Exists", values |-> {}]>>]}

SoftNodeAffinityTerms == [Weight : 0..MaxWeight, MatchExpressions : NodeSelectors]

\* The helpers of the taint-toleration test: taintCount taints Key0=Value0,
\* Key1=Value1, ... with effect PreferNoSchedule, and as many tolerations.
makeTaints(taintCount) ==
    [i \in 1..taintCount |->
        [Key |-> <<"Key", i - 1>>, Value |-> <<"Value", i - 1>>,
         Effect |-> TaintEffectPreferNoSchedule]]

makeTolerations(op, tolerationCount) ==
    [i \in 1..tolerationCount |->
        [Key |-> <<"Key", i - 1>>, Value |-> <<"Value", i - 1>>,
         Operator |-> op, Effect |-> TaintEffectPreferNoSchedule]]

TaintLists == {makeTaints(c) : c \in 0..MaxPrefTaints}

\* The candidate of the service-affinity priority and the pods it is
\* matched against.
FooBar == [foo |-> "bar"]
FooBarBazBlah == [foo |-> "bar", baz |-> "blah"]
BarFoo == [bar |-> "foo", blah |-> "baz"]

AffinitySelectorPod(namespace, affinitySelector) ==
    [Namespace |-> namespace, AffinitySelector |-> affinitySelector]

AffinitySelectorCandidates ==
    {AffinitySelectorPod("ns1", sel) : sel \in {NoLabels, FooBar, FooBarBazBlah}}

AffinityPlaced ==
    {PeerPod(ns, l, name) :
        ns \in {"ns1", "ns2"}, l \in {FooBar, FooBarBazBlah, BarFoo},
        name \in {"machine1", "machine2", UnknownNode}}

InitPrioInputs ==
    /\ \/ /\ pFn = "ipa"
          /\ \/ /\ pNodes \in {Untainted(c) : c \in Clusters}
                /\ pPod \in ForwardCandidates
                /\ pPods \in SeqUpTo(ForwardPlaced(pNodes), MaxPlaced)
             \/ /\ pNodes \in {Untainted(c) : c \in SmallClusters}
                /\ pPod \in SymmetricCandidates
                /\ pPods \in SeqUpTo(SymmetricPlaced(pNodes), MaxPlaced)
                /\ pPods # <<>>
             \/ /\ pNodes = Untainted(<<China, India>>)
                /\ pPod \in MalformedCandidates
                /\ pPods \in SeqUpTo(MalformedPlaced(pNodes), MaxPlaced)
                /\ pPods # <<>>
       \/ /\ pFn = "na"
          /\ pNodes \in {Untainted(c) : c \in Clusters}
          /\ pPods = <<>>
          /\ \E terms \in SeqUpTo(SoftNodeAffinityTerms, MaxSoftTerms) :
                pPod = [PlainPod("ns1", [security |-> "S1"], "", NoAffinity)
                            EXCEPT !.SoftNodeAffinity = terms]
       \/ /\ pFn = "tt"
          /\ pNodes \in TaintedNodeLists(TaintLists)
          /\ pPods = <<>>
          /\ \E op \in {"", TolerationOpEqual, TolerationOpExists},
                c \in 0..MaxPrefTaints :
                pPod = [PlainPod("ns1", [security |-> "S1"], "", NoAffinity)
                            EXCEPT !.Tolerations = makeTolerations(op, c)]
       \/ /\ pFn = "sa"
          /\ pNodes \in {Untainted(<<NoLabels>>), Untainted(<<NoLabels, NoLabels>>)}
          /\ pPods \in SeqUpTo(AffinityPlaced, MaxPlaced)
          /\ pPod \in AffinitySelectorCandidates
    /\ ppc = "init"
    /\ pOut = <<>>
    /\ pResult = <<>>
    /\ pErr = FALSE
    /\ pPrev = <<>>

IdlePrio ==
    /\ pFn = "none"
    /\ pNodes = <<>>
    /\ pPods = <<>>
    /\ pPod = <<>>
    /\ ppc = "init"
    /\ pOut = <<>>
    /\ pResult = <<>>
    /\ pErr = FALSE
    /\ pPrev = <<>>

\* One invocation stores what it computed and keeps the result of the one
\* before it.
Returned(r) ==
    /\ ppc' = (IF ppc = "init" THEN "once" ELSE "again")
    /\ pOut' = r.out
    /\ pResult' = r.result
    /\ pErr' = r.err
    /\ pPrev' = pResult
    /\ UNCHANGED <<pFn, pNodes, pPods, pPod>>
    /\ UNCHANGED <<taintVars, FailedResourceType, resVars, concVars, predVars, cliVars,
                 schedVars, regVars>>

CallInterPodAffinityPriority ==
    /\ pFn = "ipa"
    /\ \E r \in CalculateInterPodAffinityPriority(pPod, pNodes, pPods) : Returned(r)

CallNodeAffinityPriority ==
    /\ pFn = "na"
    /\ Returned(CalculateNodeAffinityPriority(pPod, pNodes))

CallTaintTolerationPriority ==
    /\ pFn = "tt"
    /\ Returned(ComputeTaintTolerationPriority(pPod, pNodes))

CallServiceAffinityPriority ==
    /\ pFn = "sa"
    /\ Returned(CalculateAffinityPriority(pPod, pPods, pNodes))

\* ------------------------------------------------------------------------
\* Predicates on pods, volumes and labels
\* ------------------------------------------------------------------------

\* Bound of the host ports.
MaxHostPort == 2

\* A pod as the predicates read it.
PredPod(namespace, nodeName, nodeSelector, containers, volumes) ==
    [Namespace |-> namespace, NodeName |-> nodeName, NodeSelector |-> nodeSelector,
     Containers |-> containers, Volumes |-> volumes]

NoSelector == [k \in {} |-> ""]
NoInfo == [k \in {} |-> ""]

\* ---- PodFitsHostPorts

\* The keys of the map getUsedPorts builds.
getUsedPorts(pods) ==
    UNION {UNION {{pods[i].Containers[c].Ports[k] :
                      k \in 1..Len(pods[i].Containers[c].Ports)} :
                  c \in 1..Len(pods[i].Containers)} :
           i \in 1..Len(pods)}

\* Mutant of PodFitsHostPorts: host port 0 is compared like any other port.
M_PodFitsHostPorts(pod, existingPods) ==
    LET existingPorts == getUsedPorts(existingPods)
        wantPorts == getUsedPorts(<<pod>>)
    IN  [fits |-> ~(\E wport \in wantPorts : wport \in existingPorts),
         err |-> "nil"]

PodFitsHostPorts(pod, existingPods) ==
    LET existingPorts == getUsedPorts(existingPods)
        wantPorts == getUsedPorts(<<pod>>)
    IN  [fits |-> ~(\E wport \in wantPorts : wport # 0 /\ wport \in existingPorts),
         err |-> "nil"]

\* ---- NoDiskConflict

haveSame(a1, a2) ==
    \E i \in 1..Len(a1), j \in 1..Len(a2) : a1[i] = a2[j]

\* Mutant of isVolumeConflict: two mounts of one GCE disk conflict also when
\* both are read-only.
M_isVolumeConflict(volume, pod) ==
    \/ /\ volume.kind = "gce"
       /\ \E ix \in 1..Len(pod.Volumes) :
             /\ pod.Volumes[ix].kind = "gce"
             /\ pod.Volumes[ix].PDName = volume.PDName
    \/ /\ volume.kind = "aws"
       /\ \E ix \in 1..Len(pod.Volumes) :
             /\ pod.Volumes[ix].kind = "aws"
             /\ pod.Volumes[ix].VolumeID = volume.VolumeID
    \/ /\ volume.kind = "rbd"
       /\ \E ix \in 1..Len(pod.Volumes) :
             /\ pod.Volumes[ix].kind = "rbd"
             /\ haveSame(volume.CephMonitors, pod.Volumes[ix].CephMonitors)
             /\ pod.Volumes[ix].RBDPool = volume.RBDPool
             /\ pod.Volumes[ix].RBDImage = volume.RBDImage

isVolumeConflict(volume, pod) ==
    \/ /\ volume.kind = "gce"
       /\ \E ix \in 1..Len(pod.Volumes) :
             /\ pod.Volumes[ix].kind = "gce"
             /\ pod.Volumes[ix].PDName = volume.PDName
             /\ ~(pod.Volumes[ix].ReadOnly /\ volume.ReadOnly)
    \/ /\ volume.kind = "aws"
       /\ \E ix \in 1..Len(pod.Volumes) :
             /\ pod.Volumes[ix].kind = "aws"
             /\ pod.Volumes[ix].VolumeID = volume.VolumeID
    \/ /\ volume.kind = "rbd"
       /\ \E ix \in 1..Len(pod.Volumes) :
             /\ pod.Volumes[ix].kind = "rbd"
             /\ haveSame(volume.CephMonitors, pod.Volumes[ix].CephMonitors)
             /\ pod.Volumes[ix].RBDPool = volume.RBDPool
             /\ pod.Volumes[ix].RBDImage = volume.RBDImage

NoDiskConflict(pod, existingPods) ==
    [fits |-> ~(\E ix \in 1..Len(pod.Volumes), podIx \in 1..Len(existingPods) :
                   isVolumeConflict(pod.Volumes[ix], existingPods[podIx])),
     err |-> "nil"]

\* ---- VolumeZoneChecker.predicate

LabelZoneFailureDomain == "failure-domain.beta.kubernetes.io/zone"
LabelZoneRegion == "failure-domain.beta.kubernetes.io/region"

\* A label map restricted to the zone and region labels.
ZoneConstraints(labelMap) ==
    [k \in DOMAIN labelMap \cap {LabelZoneFailureDomain, LabelZoneRegion} |-> labelMap[k]]

\* Mutant of ZoneLabelsMismatch: a label of the volume is compared only when
\* the node has the label too.
M_ZoneLabelsMismatch(pvLabels, nodeConstraints) ==
    \E k \in DOMAIN ZoneConstraints(pvLabels) :
        k \in DOMAIN nodeConstraints /\ pvLabels[k] # nodeConstraints[k]

\* Whether some zone or region label of the volume differs from what the
\* map nodeConstraints gives for its key.
ZoneLabelsMismatch(pvLabels, nodeConstraints) ==
    \E k \in DOMAIN ZoneConstraints(pvLabels) :
        pvLabels[k] # GetLabel(nodeConstraints, k)

PredError == [fits |-> FALSE, err |-> "err"]

\* The loop over the volumes of the pod, from volume i on.
RECURSIVE VolumeZoneFrom(_, _, _, _)
VolumeZoneFrom(pod, info, nodeConstraints, i) ==
    IF i > Len(pod.Volumes) THEN [fits |-> TRUE, err |-> "nil"]
    ELSE LET volume == pod.Volumes[i]
         IN  IF volume.kind # "pvc"
             THEN VolumeZoneFrom(pod, info, nodeConstraints, i + 1)
             ELSE IF volume.ClaimName = "" THEN PredError
             ELSE LET pvc == info.pvcs[<<pod.Namespace, volume.ClaimName>>]
                  IN  IF pvc.status # "ok" THEN PredError
                      ELSE IF pvc.VolumeName = "" THEN PredError
                      ELSE LET pv == info.pvs[pvc.VolumeName]
                           IN  IF pv.status # "ok" THEN PredError
                               ELSE IF ZoneLabelsMismatch(pv.Labels, nodeConstraints)
                               THEN [fits |-> FALSE, err |-> "nil"]
                               ELSE VolumeZoneFrom(pod, info, nodeConstraints, i + 1)

VolumeZoneChecker_predicate(pod, existingPods, nodeID, info) ==
    LET node == info.nodes[nodeID]
    IN  IF node.status # "ok" THEN PredError
        ELSE LET nodeConstraints == ZoneConstraints(node.Labels)
             IN  IF DOMAIN nodeConstraints = {}
                 THEN [fits |-> TRUE, err |-> "nil"]
                 ELSE VolumeZoneFrom(pod, info, nodeConstraints, 1)

\* ---- ServiceAffinity.CheckServiceAffinity

\* labels.Set.Has and the selector of a labels.Set: every key of the set is
\* a label with the value of the set.
SetHas(labelSet, l) == l \in DOMAIN labelSet

SetSelectorMatches(labelSet, labelMap) ==
    \A k \in DOMAIN labelSet : k \in DOMAIN labelMap /\ labelMap[k] = labelSet[k]

\* podLister.List(selector): the listed pods the selector matches.
ListPods(pods, selector) ==
    SelectSeq(pods, LAMBDA p : SetSelectorMatches(selector, p.Labels))

\* The labels of s.labels that the node-selector of the pod gives.
LabelsFromNodeSelector(affinityKeys, nodeSelector) ==
    [l \in {k \in affinityKeys : SetHas(nodeSelector, k)} |-> nodeSelector[l]]

\* Mutant of LabelsFromPeer: the labels of the peer's node replace the
\* values the node-selector gave.
M_LabelsFromPeer(affinityKeys, affinityLabels, otherLabels) ==
    [l \in DOMAIN affinityLabels \cup {k \in affinityKeys : SetHas(otherLabels, k)} |->
        IF SetHas(otherLabels, l) /\ l \in affinityKeys THEN otherLabels[l]
        ELSE affinityLabels[l]]

\* affinityLabels after the labels of the peer's node have filled the keys
\* it lacked.
LabelsFromPeer(affinityKeys, affinityLabels, otherLabels) ==
    [l \in DOMAIN affinityLabels \cup {k \in affinityKeys : SetHas(otherLabels, k)} |->
        IF l \in DOMAIN affinityLabels THEN affinityLabels[l] ELSE otherLabels[l]]

\* The end of CheckServiceAffinity: the selector of affinityLabels is matched
\* against the labels of the node.
MatchAffinityLabels(affinityLabels, nodeID, info) ==
    LET node == info.nodes[nodeID]
    IN  IF node.status # "ok" THEN PredError
        ELSE [fits |-> SetSelectorMatches(affinityLabels, node.Labels), err |-> "nil"]

CheckServiceAffinity(affinityList, pod, existingPods, nodeID, info) ==
    LET affinityKeys == {affinityList[i] : i \in 1..Len(affinityList)}
        nodeSelector == pod.NodeSelector
        affinityLabels == LabelsFromNodeSelector(affinityKeys, nodeSelector)
        labelsExist == \A l \in affinityKeys : SetHas(nodeSelector, l)
    IN  IF labelsExist \/ info.services.status # "ok"
        THEN MatchAffinityLabels(affinityLabels, nodeID, info)
        ELSE IF info.pods.status # "ok" THEN PredError
        ELSE LET selector == info.services.items[1].Selector
                 servicePods == ListPods(info.pods.items, selector)
                 nsServicePods ==
                     SelectSeq(servicePods, LAMBDA p : p.Namespace = pod.Namespace)
             IN  IF Len(nsServicePods) = 0
                 THEN MatchAffinityLabels(affinityLabels, nodeID, info)
                 ELSE LET otherNode == info.nodes[nsServicePods[1].NodeName]
                      IN  IF otherNode.status # "ok" THEN PredError
                          ELSE MatchAffinityLabels(
                                   LabelsFromPeer(affinityKeys, affinityLabels,
                                                  otherNode.Labels),
                                   nodeID, info)

\* ---- inputs of the predicates

HostPortSet == 0..MaxHostPort
PortLists == SeqUpTo(HostPortSet, 2)
ContainerWith(ports) == [Ports |-> ports]

\* Candidates with one container, or with two of which the second has one port.
PortCandidates ==
    {PredPod("ns1", "", NoSelector, <<ContainerWith(a)>>, <<>>) : a \in PortLists}
    \cup
    {PredPod("ns1", "", NoSelector, <<ContainerWith(a), ContainerWith(<<b>>)>>, <<>>) :
        a \in PortLists, b \in HostPortSet}

PortPlaced ==
    {PredPod("ns1", "machine1", NoSelector, <<ContainerWith(a)>>, <<>>) : a \in PortLists}

GCEPersistentDisk(pdName, readOnly) ==
    [kind |-> "gce", PDName |-> pdName, ReadOnly |-> readOnly]
AWSElasticBlockStore(volumeID) == [kind |-> "aws", VolumeID |-> volumeID]
RBD(monitors, pool, image) ==
    [kind |-> "rbd", CephMonitors |-> monitors, RBDPool |-> pool, RBDImage |-> image]
EmptyDir == [kind |-> "emptyDir"]

DiskVolumes ==
    {GCEPersistentDisk(n, ro) : n \in {"d1", "d2"}, ro \in BOOLEAN}
    \cup {AWSElasticBlockStore(n) : n \in {"d1", "d2"}}
    \cup {RBD(m, "d1", "d1") : m \in {<<>>, <<"a">>, <<"b">>, <<"a", "b">>}}
    \cup {RBD(<<"a">>, "d2", "d1"), RBD(<<"a">>, "d1", "d2")}
    \cup {EmptyDir}

DiskCandidates ==
    {PredPod("ns1", "", NoSelector, <<>>, v) : v \in SeqUpTo(DiskVolumes, 2)}

DiskPlaced ==
    {PredPod("ns1", "machine1", NoSelector, <<>>, <<v>>) : v \in DiskVolumes}

\* What a lookup in the snapshot gives: an object, a failure ("err") or no
\* object and no failure ("nil").
LookupFailed == [status |-> "err"]
LookupNil == [status |-> "nil"]
FoundNode(labelMap) == [status |-> "ok", Labels |-> labelMap]
FoundClaim(volumeName) == [status |-> "ok", VolumeName |-> volumeName]
FoundVolume(labelMap) == [status |-> "ok", Labels |-> labelMap]

PersistentVolumeClaim(claimName) == [kind |-> "pvc", ClaimName |-> claimName]

ZoneOf(zone) == [k \in {LabelZoneFailureDomain} |-> zone]
RegionOf(region) == [k \in {LabelZoneRegion} |-> region]
ZoneAndRegionOf(zone, region) ==
    [k \in {LabelZoneFailureDomain, LabelZoneRegion} |->
        IF k = LabelZoneFailureDomain THEN zone ELSE region]

ZoneNodeLabels ==
    {NoLabels, [rack |-> "k1"], ZoneOf("z1"), ZoneOf(""), RegionOf("r1"),
     ZoneAndRegionOf("z1", "r1")}

ZoneVolumeLabels ==
    {NoLabels, [rack |-> "k2"], ZoneOf("z1"), ZoneOf("z2"), ZoneOf(""),
     RegionOf("r1"), RegionOf("r2"), ZoneAndRegionOf("z1", "r2")}

ZoneCandidates ==
    {PredPod("ns1", "", NoSelector, <<>>, v) :
        v \in SeqUpTo({EmptyDir, PersistentVolumeClaim(""), PersistentVolumeClaim("c1"),
                       PersistentVolumeClaim("c2")}, 2)}

ZoneInfos ==
    {[nodes |-> [n \in {"machine1", "machine2"} |->
                    IF n = "machine1" THEN node ELSE FoundNode(ZoneOf("z2"))],
      pvcs |-> [c \in {<<"ns1", "c1">>, <<"ns1", "c2">>} |->
                   IF c[2] = "c1" THEN c1 ELSE c2],
      pvs |-> [v \in {"pv1", "pv2"} |-> IF v = "pv1" THEN pv1 ELSE pv2]] :
        node \in {LookupFailed, LookupNil} \cup {FoundNode(l) : l \in ZoneNodeLabels},
        c1 \in {LookupFailed, LookupNil, FoundClaim(""), FoundClaim("pv1"),
                FoundClaim("pv2")},
        c2 \in {LookupFailed, FoundClaim("pv2")},
        pv1 \in {LookupFailed, LookupNil} \cup {FoundVolume(l) : l \in ZoneVolumeLabels},
        pv2 \in {LookupFailed, FoundVolume(ZoneOf("z1")), FoundVolume(RegionOf("r2")),
                 FoundVolume([rack |-> "k2"])}}

Found(items) == [status |-> "ok", items |-> items]
Service(selector) == [Selector |-> selector]

AffinityLists == {<<>>, <<"region">>, <<"region", "zone">>}

AffinityNodeSelectors ==
    {NoSelector, [region |-> "r1"], [region |-> "r2"], [region |-> ""],
     [zone |-> "z1"], [region |-> "r1", zone |-> "z1"]}

AffinityCandidates ==
    {PredPod("ns1", "", sel, <<>>, <<>>) : sel \in AffinityNodeSelectors}

\* What GetPodServices returns: an error, or the services of the pod.
PodServices ==
    {LookupFailed,
     Found(<<Service([app |-> "a"])>>),
     Found(<<Service([app |-> "a"]), Service([app |-> "b"])>>),
     Found(<<Service([app |-> "b"]), Service([app |-> "a"])>>)}

PeerPods ==
    {PeerPod(ns, [app |-> a], name) :
        ns \in {"ns1", "ns2"}, a \in {"a", "b"}, name \in {"machine2", "machine3"}}

ListedPods == {LookupFailed} \cup {Found(ps) : ps \in SeqUpTo(PeerPods, 2)}

AffinityInfos ==
    {[labels |-> l, services |-> s, pods |-> ps,
      nodes |-> [n \in {"machine1", "machine2", "machine3"} |->
                    IF n = "machine1" THEN n1 ELSE IF n = "machine2" THEN n2 ELSE n3]] :
        l \in AffinityLists, s \in PodServices, ps \in ListedPods,
        n1 \in {LookupFailed, FoundNode(NoLabels), FoundNode([region |-> "r1"]),
                FoundNode([region |-> "r1", zone |-> "z1"]),
                FoundNode([region |-> "r2", zone |-> "z1"])},
        n2 \in {LookupFailed, FoundNode(NoLabels), FoundNode([region |-> "r1"]),
                FoundNode([region |-> "r2", zone |-> "z1"])},
        n3 \in {FoundNode([region |-> "r1", zone |-> "z2"]), FoundNode([zone |-> "z1"])}}

InitPredInputs ==
    /\ \/ /\ qFn = "ports"
          /\ qPod \in PortCandidates
          /\ qExisting \in SeqUpTo(PortPlaced, 2)
          /\ qNode = "machine1"
          /\ qInfo = NoInfo
       \/ /\ qFn = "disk"
          /\ qPod \in DiskCandidates
          /\ qExisting \in SeqUpTo(DiskPlaced, 2)
          /\ qNode = "machine1"
          /\ qInfo = NoInfo
       \/ /\ qFn = "zone"
          /\ qPod \in ZoneCandidates
          /\ qExisting = <<>>
          /\ qNode = "machine1"
          /\ qInfo \in ZoneInfos
       \/ /\ qFn = "affinity"
          /\ qPod \in AffinityCandidates
          /\ qExisting = <<>>
          /\ qNode = "machine1"
          /\ qInfo \in AffinityInfos
    /\ qpc = "init"
    /\ qFits = FALSE
    /\ qErr = "nil"
    /\ qRemoved = ""
    /\ qBefore = <<>>

IdlePred ==
    /\ qFn = "none"
    /\ qPod = <<>>
    /\ qExisting = <<>>
    /\ qNode = ""
    /\ qInfo = NoInfo
    /\ qpc = "idle"
    /\ qFits = FALSE
    /\ qErr = "nil"
    /\ qRemoved = ""
    /\ qBefore = <<>>

\* A predicate returns (fits, err).
PredReturned(r) ==
    /\ qFits' = r.fits
    /\ qErr' = r.err
    /\ qpc' = "done"
    /\ UNCHANGED <<qFn, qPod, qExisting, qNode, qInfo, qRemoved, qBefore>>
    /\ UNCHANGED <<taintVars, FailedResourceType, resVars, concVars, prioVars, cliVars,
                 schedVars, regVars>>

CallPodFitsHostPorts ==
    /\ qFn = "ports"
    /\ qpc = "init"
    /\ PredReturned(PodFitsHostPorts(qPod, qExisting))

CallNoDiskConflict ==
    /\ qFn = "disk"
    /\ qpc = "init"
    /\ PredReturned(NoDiskConflict(qPod, qExisting))

CallVolumeZonePredicate ==
    /\ qFn = "zone"
    /\ qpc = "init"
    /\ PredReturned(VolumeZoneChecker_predicate(qPod, qExisting, qNode, qInfo))

CallCheckServiceAffinity ==
    /\ qFn = "affinity"
    /\ qpc = "init"
    /\ PredReturned(CheckServiceAffinity(qInfo.labels, qPod, qExisting, qNode, qInfo))

\* Node nodeA leaves the node snapshot: StaticNodeInfo.GetNodeInfo finds no
\* item of that name any more and returns its error. The lists of placed
\* pods stay as they are, and the predicate is then asked again about the
\* same node.
RemoveNode(nodeA) ==
    /\ qpc = "done"
    /\ qRemoved = ""
    /\ qFn \in {"zone", "affinity"}
    /\ nodeA \in DOMAIN qInfo.nodes
    /\ nodeA # qNode
    /\ qInfo.nodes[nodeA].status = "ok"
    /\ qInfo' = [qInfo EXCEPT !.nodes[nodeA] = LookupFailed]
    /\ qRemoved' = nodeA
    /\ qBefore' = [fits |-> qFits, err |-> qErr]
    /\ qpc' = "init"
    /\ UNCHANGED <<qFn, qPod, qExisting, qNode, qFits, qErr>>
    /\ UNCHANGED <<taintVars, FailedResourceType, resVars, concVars, prioVars, cliVars,
                 schedVars, regVars>>

\* ------------------------------------------------------------------------
\* The taint command: parseTaints, reorganizeTaints, RunTaint
\* ------------------------------------------------------------------------

\* A string is the sequence of its pieces: a piece is one of the characters
\* "=", ":", "-", "_" or a run of letters that is never cut.
Letters == {"foo", "bar", "Foo", "NoSchedule", "PreferNoSchedule", "NoExecute"}
Punctuation == {"=", ":", "-", "_"}

\* strings.Index(s, piece) != -1
HasPiece(s, piece) == \E i \in 1..Len(s) : s[i] = piece

\* strings.HasSuffix(s, piece)
HasSuffix(s, piece) == Len(s) > 0 /\ s[Len(s)] = piece

FirstIndex(s, piece) ==
    CHOOSE i \in 1..Len(s) : s[i] = piece /\ \A k \in 1..(i - 1) : s[k] # piece

\* strings.Split(s, sep)
RECURSIVE Split(_, _)
Split(s, sep) ==
    IF ~HasPiece(s, sep) THEN <<s>>
    ELSE LET i == FirstIndex(s, sep)
         IN  <<SubSeq(s, 1, i - 1)>> \o Split(SubSeq(s, i + 1, Len(s)), sep)

\* validation.IsQualifiedName for a name without "/": it begins and ends
\* with a letter or a digit and holds letters, digits, "-", "_" and "."
\* in between.
IsQualifiedName(value) ==
    /\ Len(value) > 0
    /\ value[1] \in Letters
    /\ value[Len(value)] \in Letters
    /\ \A i \in 1..Len(value) : value[i] \in Letters \cup {"-", "_"}

\* validation.IsValidLabelValue: empty, or as a qualified name.
IsValidLabelValue(value) == Len(value) = 0 \/ IsQualifiedName(value)

NoTaints == [taints |-> <<>>, remove |-> <<>>, err |-> TRUE]

\* The loop of parseTaints from argument i on: [taintList, remove, err].
RECURSIVE ParseTaintsFrom(_, _, _, _)
ParseTaintsFrom(spec, i, taintList, remove) ==
    IF i > Len(spec) THEN [taints |-> taintList, remove |-> remove, err |-> FALSE]
    ELSE LET taintSpec == spec[i]
         IN  IF HasPiece(taintSpec, "=") /\ HasPiece(taintSpec, ":")
             THEN LET parts == Split(taintSpec, "=")
                  IN  IF Len(parts) # 2 \/ Len(parts[2]) = 0 \/ ~IsQualifiedName(parts[1])
                      THEN NoTaints
                      ELSE LET parts2 == Split(parts[2], ":")
                           IN  IF Len(parts2) # 2 \/ ~IsValidLabelValue(parts2[1])
                               THEN NoTaints
                               ELSE IF /\ parts2[2] # <<TaintEffectNoSchedule>>
                                       /\ parts2[2] # <<TaintEffectPreferNoSchedule>>
                               THEN NoTaints
                               ELSE ParseTaintsFrom(spec, i + 1,
                                        Append(taintList, [Key |-> parts[1],
                                                        Value |-> parts2[1],
                                                        Effect |-> parts2[2][1]]),
                                        remove)
             ELSE IF HasSuffix(taintSpec, "-")
             THEN ParseTaintsFrom(spec, i + 1, taintList,
                      Append(remove, SubSeq(taintSpec, 1, Len(taintSpec) - 1)))
             ELSE NoTaints

parseTaints(spec) == ParseTaintsFrom(spec, 1, <<>>, <<>>)

\* api.GetTaintsFromNodeAnnotations: the annotation holds the JSON array of
\* the taintList the command wrote; a node without the annotation has none.
GetTaintsFromNodeAnnotations(node) == node.Taints

\* validateNoTaintOverwrites: whether it returns an error.
validateNoTaintOverwrites(node, taintList) ==
    LET oldTaints == GetTaintsFromNodeAnnotations(node)
    IN  \E i \in 1..Len(taintList), j \in 1..Len(oldTaints) :
            taintList[i].Key = oldTaints[j].Key

HasKey(taintList, key) == \E i \in 1..Len(taintList) : taintList[i].Key = key

\* deleteTaintByKey: [taintList, err]
deleteTaintByKey(taintList, key) ==
    IF HasKey(taintList, key)
    THEN [taints |-> SelectSeq(taintList, LAMBDA t : t.Key # key), err |-> FALSE]
    ELSE [taints |-> <<>>, err |-> TRUE]

\* The loop of reorganizeTaints over oldTaints, from taint j on.
RECURSIVE KeepOldFrom(_, _, _)
KeepOldFrom(oldTaints, j, newTaints) ==
    IF j > Len(oldTaints) THEN newTaints
    ELSE KeepOldFrom(oldTaints, j + 1,
             IF HasKey(newTaints, oldTaints[j].Key)
             THEN newTaints
             ELSE Append(newTaints, oldTaints[j]))

\* The loop of reorganizeTaints over remove, from key i on: [taintList, err].
RECURSIVE RemoveFrom(_, _, _, _)
RemoveFrom(remove, i, newTaints, failed) ==
    IF i > Len(remove) THEN [taints |-> newTaints, err |-> failed]
    ELSE LET d == deleteTaintByKey(newTaints, remove[i])
         IN  RemoveFrom(remove, i + 1, d.taints, failed \/ d.err)

\* reorganizeTaints: [taintList, err]
reorganizeTaints(node, overwrite, taintList, remove) ==
    IF ~overwrite /\ validateNoTaintOverwrites(node, taintList)
    THEN [taints |-> <<>>, err |-> TRUE]
    ELSE LET oldTaints == GetTaintsFromNodeAnnotations(node)
             r == RemoveFrom(remove, 1, KeepOldFrom(oldTaints, 1, taintList), FALSE)
         IN  IF r.err THEN [taints |-> <<>>, err |-> TRUE] ELSE r

\* ---- RunTaint

isTaint(s) == HasPiece(s, "=") \/ HasSuffix(s, "-")

\* The first loop of RunTaint from argument i on: [err, resources, taintArgs].
RECURSIVE SplitArgsFrom(_, _, _, _)
SplitArgsFrom(args, i, resources, taintArgs) ==
    IF i > Len(args)
    THEN [err |-> FALSE, resources |-> resources, taintArgs |-> taintArgs]
    ELSE IF isTaint(args[i])
         THEN SplitArgsFrom(args, i + 1, resources, Append(taintArgs, args[i]))
         ELSE IF taintArgs = <<>>
              THEN SplitArgsFrom(args, i + 1, Append(resources, args[i]), taintArgs)
              ELSE [err |-> TRUE, resources |-> resources, taintArgs |-> taintArgs]

\* RunTaint up to client.Nodes().Get(resources[1]): the error it returns
\* ("panic" when resources[1] is out of range), or "nil" and the node the
\* server returned. The server knows the node `server` and no other.
RunTaintUntilGet(args, clientFails, server) ==
    LET split == SplitArgsFrom(args, 1, <<>>, <<>>)
    IN  IF split.err \/ Len(split.resources) < 1 \/ Len(split.taintArgs) < 1
        THEN [err |-> "usage", node |-> server]
        ELSE IF clientFails THEN [err |-> "client", node |-> server]
        ELSE IF Len(split.resources) < 2 THEN [err |-> "panic", node |-> server]
        ELSE IF split.resources[2] # <<server.Name>> THEN [err |-> "get", node |-> server]
        ELSE [err |-> "nil", node |-> server]

\* RunTaint after the Get returned targetNode: parseTaints, the overwrite
\* check, reorganizeTaints and client.Nodes().Update(targetNode). `node` is
\* the object sent to the server when `sent` is TRUE.
RunTaintFromGet(targetNode, args, overwrite, updateFails) ==
    LET split == SplitArgsFrom(args, 1, <<>>, <<>>)
        parsed == parseTaints(split.taintArgs)
        newTaints == reorganizeTaints(targetNode, overwrite, parsed.taints, parsed.remove)
        Failed(e, p) == [err |-> e, sent |-> FALSE, parsed |-> p, node |-> targetNode]
        newNode == [targetNode EXCEPT !.Taints = newTaints.taints]
    IN  IF parsed.err THEN Failed("usage", parsed)
        ELSE IF ~overwrite /\ validateNoTaintOverwrites(targetNode, parsed.taints)
        THEN Failed("overwrite", parsed)
        ELSE IF newTaints.err THEN Failed("reorganize", parsed)
        ELSE IF updateFails
        THEN [err |-> "update", sent |-> TRUE, parsed |-> parsed, node |-> newNode]
        ELSE [err |-> "nil", sent |-> TRUE, parsed |-> parsed, node |-> newNode]

\* ---- inputs of the taint command

\* Bounds of the taint command: the taint arguments of a command, the pieces
\* of an argument, the commands that run at the same time and the commands
\* that are started.
MaxTaintArgs == 2
MaxPieces == 5
NumCommands == 2
MaxCommands == 2

Commands == 1..NumCommands

\* A command that is not between its Get and its Update.
NotRunning == [pc |-> "idle"]

ParsePieces == {"foo", "Foo", "NoSchedule", "NoExecute", "=", ":", "-", "_"}

\* The taint arguments of the commands that are run one after the other.
TaintArg(key, value, effect) == <<key, "=", value, ":", effect>>
RemoveArg(key) == <<key, "-">>

EditArgs ==
    {TaintArg("foo", "bar", TaintEffectNoSchedule),
     TaintArg("foo", "foo", TaintEffectNoSchedule),
     TaintArg("foo", "bar", TaintEffectPreferNoSchedule),
     TaintArg("bar", "bar", TaintEffectNoSchedule),
     RemoveArg("foo"), RemoveArg("bar")}

\* Lists of one argument of up to MaxPieces pieces, and lists of arguments
\* of the commands.
ParseSpecs ==
    {<<s>> : s \in SeqUpTo(ParsePieces, MaxPieces)}
    \cup SeqUpTo(EditArgs \cup {TaintArg("foo", "bar", TaintEffectNoExecute),
                                TaintArg("Foo", "bar", TaintEffectNoSchedule), <<"foo">>},
                 MaxTaintArgs)

NodeWithoutTaints == [Name |-> "node1", Taints |-> <<>>]

\* The resource arguments of the commands: `nodes node1`, `node1` alone and
\* a node the server does not know.
ResourceArgs ==
    {<<(<<"nodes">>), (<<"node1">>)>>, <<(<<"node1">>)>>, <<(<<"nodes">>), (<<"nodeX">>)>>}

InitCliInputs ==
    /\ \/ /\ kFn = "parse"
          /\ kArgs \in ParseSpecs
       \/ /\ kFn = "run"
          /\ kArgs = <<>>
    /\ kNode = NodeWithoutTaints
    /\ kOld = NodeWithoutTaints
    /\ kOverwrite = FALSE
    /\ kpc = "init"
    /\ kParsed = NoTaints
    /\ kErr = "nil"
    /\ kSent = FALSE
    /\ kCmds = [c \in Commands |-> NotRunning]
    /\ kStarted = 0

IdleCli ==
    /\ kFn = "none"
    /\ kArgs = <<>>
    /\ kNode = NodeWithoutTaints
    /\ kOld = NodeWithoutTaints
    /\ kOverwrite = FALSE
    /\ kpc = "idle"
    /\ kParsed = NoTaints
    /\ kErr = "nil"
    /\ kSent = FALSE
    /\ kCmds = [c \in Commands |-> NotRunning]
    /\ kStarted = 0

\* parseTaints applied to the arguments.
CallParseTaints ==
    /\ kFn = "parse"
    /\ kpc = "init"
    /\ kParsed' = parseTaints(kArgs)
    /\ kpc' = "done"
    /\ UNCHANGED <<kFn, kArgs, kNode, kOld, kOverwrite, kErr, kSent, kCmds, kStarted>>
    /\ UNCHANGED <<taintVars, FailedResourceType, resVars, concVars, prioVars, predVars,
                 schedVars, regVars>>

\* Command c runs `taint RESOURCES ARGS [--overwrite]` up to the return of
\* client.Nodes().Get: it ends there with an error, or it holds the node the
\* server returned and goes on to parse its arguments.
RunTaintGet(c, resources, taintArgs, overwrite, clientFails) ==
    /\ kFn = "run"
    /\ kCmds[c].pc = "idle"
    /\ kStarted < MaxCommands
    /\ LET args == resources \o taintArgs
           r == RunTaintUntilGet(args, clientFails, kNode)
       IN  IF r.err = "nil"
           THEN /\ kCmds' = [kCmds EXCEPT ![c] = [pc |-> "got", args |-> args,
                                                  overwrite |-> overwrite,
                                                  targetNode |-> r.node]]
                /\ UNCHANGED <<kArgs, kOverwrite, kParsed, kErr, kSent, kOld, kpc>>
           ELSE /\ kArgs' = args
                /\ kOverwrite' = overwrite
                /\ kParsed' = NoTaints
                /\ kErr' = r.err
                /\ kSent' = FALSE
                /\ kOld' = kNode
                /\ kpc' = "done"
                /\ UNCHANGED kCmds
    /\ kStarted' = kStarted + 1
    /\ UNCHANGED <<kFn, kNode>>
    /\ UNCHANGED <<taintVars, FailedResourceType, resVars, concVars, prioVars, predVars,
                   schedVars, regVars>>

\* Command c goes on from the node its Get returned to the end of RunTaint:
\* it fails without sending anything, or it sends its copy of the node with
\* the new taints, which the server stores unless the update fails there.
RunTaintUpdate(c, updateFails) ==
    /\ kFn = "run"
    /\ kCmds[c].pc = "got"
    /\ LET cmd == kCmds[c]
           r == RunTaintFromGet(cmd.targetNode, cmd.args, cmd.overwrite, updateFails)
       IN  /\ kArgs' = cmd.args
           /\ kOverwrite' = cmd.overwrite
           /\ kParsed' = r.parsed
           /\ kErr' = r.err
           /\ kSent' = r.sent
           /\ kOld' = cmd.targetNode
           /\ kNode' = IF r.err = "nil" THEN r.node ELSE kNode
    /\ kpc' = "done"
    /\ kCmds' = [kCmds EXCEPT ![c] = NotRunning]
    /\ UNCHANGED <<kFn, kStarted>>
    /\ UNCHANGED <<taintVars, FailedResourceType, resVars, concVars, prioVars, predVars,
                   schedVars, regVars>>

\* ------------------------------------------------------------------------
\* Pods placed one after another
\* ------------------------------------------------------------------------

\* Bounds of the placements: the pods of the service, and the pod capacity
\* of the node.
MaxServicePods == 3
MaxNodePods == 3

\* A pod of the service: namespace ns1, no node-selector of its own.
ServiceCandidate == PredPod("ns1", "", NoSelector, <<>>, <<>>)

\* The snapshots of the service placements: s.labels and three nodes.
ServiceSnapshots ==
    {[labels |-> l,
      nodes |-> [n \in {"machine1", "machine2", "machine3"} |->
                    IF n = "machine1" THEN n1 ELSE IF n = "machine2" THEN n2 ELSE n3]] :
        l \in {<<"region">>, <<"region", "zone">>},
        n1 \in {FoundNode(NoLabels), FoundNode([region |-> "r1"]),
                FoundNode([region |-> "r1", zone |-> "z1"])},
        n2 \in {FoundNode([region |-> "r1"]), FoundNode([region |-> "r1", zone |-> "z1"]),
                FoundNode([region |-> "r2", zone |-> "z1"])},
        n3 \in {FoundNode([region |-> "r1", zone |-> "z2"]),
                FoundNode([region |-> "r2", zone |-> "z2"])}}

\* The pods whose placement on the node is asked for.
Container(milliCPU, memory) == [milliCPU |-> milliCPU, memory |-> memory]

ScheduledPods ==
    {<<>>, <<Container(1, 0)>>, <<Container(0, 1)>>, <<Container(1, 1)>>,
     <<Container(0, 0), Container(1, 0)>>, <<Container(1, 0), Container(1, 1)>>}

ScheduledNodes ==
    {[found |-> TRUE, capacity |-> c] :
        c \in [pods : 1..MaxNodePods, cpu : 0..MaxCapacity, memory : 0..MaxCapacity]}

InitSchedInputs ==
    /\ \/ /\ sFn = "service"
          /\ sInfo \in ServiceSnapshots
       \/ /\ sFn = "resources"
          /\ sInfo \in ScheduledNodes
    /\ sPlaced = <<>>
    /\ sLast = <<>>

IdleSched ==
    /\ sFn = "none"
    /\ sInfo = NoInfo
    /\ sPlaced = <<>>
    /\ sLast = <<>>

\* What podLister.List returns when the placed pod `first` is listed first
\* and the others follow in the order of their placement.
ListedWithFirst(placed, first) ==
    IF placed = <<>> THEN <<>>
    ELSE <<placed[first]>> \o
         [i \in 1..(Len(placed) - 1) |-> IF i < first THEN placed[i] ELSE placed[i + 1]]

\* The scheduler asks CheckServiceAffinity about node nodeID for the next pod
\* of the service and binds the pod to the node when the predicate accepts.
PlaceServicePod(nodeID, first) ==
    /\ sFn = "service"
    /\ Len(sPlaced) < MaxServicePods
    /\ IF sPlaced = <<>> THEN first = 1 ELSE first \in 1..Len(sPlaced)
    /\ LET info == [labels |-> sInfo.labels,
                    services |-> Found(<<Service([app |-> "a"])>>),
                    pods |-> Found(ListedWithFirst(sPlaced, first)),
                    nodes |-> sInfo.nodes]
           existingPods == SelectSeq(sPlaced, LAMBDA p : p.NodeName = nodeID)
           r == CheckServiceAffinity(sInfo.labels, ServiceCandidate, existingPods,
                                     nodeID, info)
       IN  /\ sLast' = [fits |-> r.fits, err |-> r.err]
           /\ sPlaced' = IF r.fits /\ r.err = "nil"
                         THEN Append(sPlaced, PeerPod("ns1", [app |-> "a"], nodeID))
                         ELSE sPlaced
    /\ UNCHANGED <<sFn, sInfo>>
    /\ UNCHANGED <<taintVars, FailedResourceType, resVars, concVars, prioVars, predVars,
                   cliVars, regVars>>

\* The scheduler asks PodFitsResources about the node for a pod, with the
\* pods already placed there as existingPods, and binds the pod to the node
\* when the predicate accepts.
ScheduleOnNode(pod) ==
    /\ sFn = "resources"
    /\ LET r == PodFitsResources(pod, sPlaced, sInfo, FailedResourceType)
       IN  /\ sLast' = [fits |-> r.fits, err |-> r.err]
           /\ FailedResourceType' = r.failed
           /\ sPlaced' = IF r.fits /\ r.err = "nil" THEN Append(sPlaced, pod) ELSE sPlaced
    /\ UNCHANGED <<sFn, sInfo>>
    /\ UNCHANGED <<taintVars, resVars, concVars, prioVars, predVars, cliVars, regVars>>

\* The scheduler asks PodFitsResources about a node that GetNodeInfo does
\* not find.
AskAbsentNode(pod) ==
    /\ sFn = "resources"
    /\ LET r == PodFitsResources(pod, <<>>, NoNode, FailedResourceType)
       IN  /\ sLast' = [fits |-> r.fits, err |-> r.err]
           /\ FailedResourceType' = r.failed
    /\ UNCHANGED <<sFn, sInfo, sPlaced>>
    /\ UNCHANGED <<taintVars, resVars, concVars, prioVars, predVars, cliVars, regVars>>

\* ------------------------------------------------------------------------
\* The strategies of the ingress and ingress-point registries
\* ------------------------------------------------------------------------

\* Bounds: the updates after a create, and the Generation a client submits.
MaxUpdates == 3
MaxGeneration == 3

\* experimental.IngressStatus{} and experimental.IngressPointStatus{}.
EmptyStatus == "empty"

\* An ingress or ingress point: its Spec, ObjectMeta.Generation and Status.
RegistryObject(spec, generation, status) ==
    [Spec |-> spec, Generation |-> generation, Status |-> status]

SubmittedObjects ==
    {RegistryObject(spec, generation, status) :
        spec \in {"spec1", "spec2"}, generation \in 0..MaxGeneration,
        status \in {EmptyStatus, "ready"}}

ingressStrategy_PrepareForCreate(obj) ==
    [obj EXCEPT !.Generation = 1, !.Status = EmptyStatus]

\* reflect.DeepEqual of the specs is the equality of the values.
ingressStrategy_PrepareForUpdate(obj, old) ==
    LET newIngress == [obj EXCEPT !.Status = old.Status]
    IN  IF old.Spec # newIngress.Spec
        THEN [newIngress EXCEPT !.Generation = old.Generation + 1]
        ELSE newIngress

ingressPointStrategy_PrepareForCreate(obj) ==
    [obj EXCEPT !.Generation = 1, !.Status = EmptyStatus]

ingressPointStrategy_PrepareForUpdate(obj, old) ==
    LET newIngressPoint == [obj EXCEPT !.Status = old.Status]
    IN  IF old.Spec # newIngressPoint.Spec
        THEN [newIngressPoint EXCEPT !.Generation = old.Generation + 1]
        ELSE newIngressPoint

InitRegInputs ==
    /\ gKind \in {"ingress", "ingresspoint"}
    /\ gStored = <<>>
    /\ gChanges = 0
    /\ gUpdates = 0

IdleReg ==
    /\ gKind = "none"
    /\ gStored = <<>>
    /\ gChanges = 0
    /\ gUpdates = 0

\* A create: the registry stores the object the strategy prepared.
Create(obj) ==
    /\ gKind \in {"ingress", "ingresspoint"}
    /\ gStored = <<>>
    /\ gStored' = IF gKind = "ingress" THEN ingressStrategy_PrepareForCreate(obj)
                  ELSE ingressPointStrategy_PrepareForCreate(obj)
    /\ UNCHANGED <<gKind, gChanges, gUpdates>>
    /\ UNCHANGED <<taintVars, FailedResourceType, resVars, concVars, prioVars, predVars,
                   cliVars, schedVars>>

\* An update: the registry stores the object the strategy prepared from the
\* submitted object and the stored one.
Update(obj) ==
    /\ gKind \in {"ingress", "ingresspoint"}
    /\ gStored # <<>>
    /\ gUpdates < MaxUpdates
    /\ gStored' = IF gKind = "ingress" THEN ingressStrategy_PrepareForUpdate(obj, gStored)
                  ELSE ingressPointStrategy_PrepareForUpdate(obj, gStored)
    /\ gChanges' = IF obj.Spec # gStored.Spec THEN gChanges + 1 ELSE gChanges
    /\ gUpdates' = gUpdates + 1
    /\ UNCHANGED gKind
    /\ UNCHANGED <<taintVars, FailedResourceType, resVars, concVars, prioVars, predVars,
                   cliVars, schedVars>>

\* ------------------------------------------------------------------------
\* Specifications
\* ------------------------------------------------------------------------

InitTaint ==
    InitTaintInputs /\ FailedResourceType = "" /\ IdleRes /\ IdleConc /\ IdlePrio
    /\ IdlePred /\ IdleCli /\ IdleSched /\ IdleReg

NextTaint == PodToleratesTaints \/ CountIntolerable \/ CompareTaintList

SpecTaint == InitTaint /\ [][NextTaint]_vars

InitRes ==
    InitResInputs /\ FailedResourceType = "" /\ IdleTaint /\ IdleConc /\ IdlePrio
    /\ IdlePred /\ IdleCli /\ IdleSched /\ IdleReg

NextRes == CallPodFitsResources

SpecRes == InitRes /\ [][NextRes]_vars

InitConc ==
    InitConcInputs /\ FailedResourceType = "" /\ IdleTaint /\ IdleRes /\ IdlePrio
    /\ IdlePred /\ IdleCli /\ IdleSched /\ IdleReg

NextConc == \E w \in Workers : Evaluate(w) \/ RecordReason(w)

SpecConc == InitConc /\ [][NextConc]_vars

InitPrio ==
    InitPrioInputs /\ FailedResourceType = "" /\ IdleTaint /\ IdleRes /\ IdleConc
    /\ IdlePred /\ IdleCli /\ IdleSched /\ IdleReg

NextPrio ==
    \/ CallInterPodAffinityPriority
    \/ CallNodeAffinityPriority
    \/ CallTaintTolerationPriority
    \/ CallServiceAffinityPriority

SpecPrio == InitPrio /\ [][NextPrio]_vars

InitPred ==
    InitPredInputs /\ FailedResourceType = "" /\ IdleTaint /\ IdleRes /\ IdleConc
    /\ IdlePrio /\ IdleCli /\ IdleSched /\ IdleReg

NextPred ==
    \/ CallPodFitsHostPorts
    \/ CallNoDiskConflict
    \/ CallVolumeZonePredicate
    \/ CallCheckServiceAffinity
    \/ \E nodeA \in {"machine2", "machine3"} : RemoveNode(nodeA)

SpecPred == InitPred /\ [][NextPred]_vars

InitCli ==
    InitCliInputs /\ FailedResourceType = "" /\ IdleTaint /\ IdleRes /\ IdleConc
    /\ IdlePrio /\ IdlePred /\ IdleSched /\ IdleReg

NextCli ==
    \/ CallParseTaints
    \/ \E c \in Commands, resources \in ResourceArgs,
          taintArgs \in SeqUpTo(EditArgs, MaxTaintArgs), overwrite \in BOOLEAN,
          clientFails \in BOOLEAN :
          RunTaintGet(c, resources, taintArgs, overwrite, clientFails)
    \/ \E c \in Commands, updateFails \in BOOLEAN : RunTaintUpdate(c, updateFails)

SpecCli == InitCli /\ [][NextCli]_vars

InitSched ==
    InitSchedInputs /\ FailedResourceType = "" /\ IdleTaint /\ IdleRes /\ IdleConc
    /\ IdlePrio /\ IdlePred /\ IdleCli /\ IdleReg

NextSched ==
    \/ \E nodeID \in {"machine1", "machine2", "machine3"}, first \in 1..MaxServicePods :
          PlaceServicePod(nodeID, first)
    \/ \E pod \in ScheduledPods : ScheduleOnNode(pod)
    \/ \E pod \in ScheduledPods : AskAbsentNode(pod)

SpecSched == InitSched /\ [][NextSched]_vars

InitReg ==
    InitRegInputs /\ FailedResourceType = "" /\ IdleTaint /\ IdleRes /\ IdleConc
    /\ IdlePrio /\ IdlePred /\ IdleCli /\ IdleSched

NextReg == (\E obj \in SubmittedObjects : Create(obj)) \/ (\E obj \in SubmittedObjects : Update(obj))

SpecReg == InitReg /\ [][NextReg]_vars

\* ------------------------------------------------------------------------
\* Claims about taints and tolerations (SpecTaint)
\* ------------------------------------------------------------------------

\* Taint i of the node is matched by at least one toleration of the pod.
TaintTolerated(i) ==
    \E j \in 1..Len(tolerations) : TolerationMatchesTaint(tolerations[j], taints[i])

\* C1: PodTolerationsMatchNodeTaints accepts the node if and only if every
\* taint whose effect is not PreferNoSchedule is matched by a toleration of
\* the pod; PreferNoSchedule taints never reject, also for a pod without
\* tolerations.
C1_AcceptIffNonPreferTolerated ==
    tpc = "PodToleratesTaints" =>
        (tFits <=> \A i \in 1..Len(taints) :
                      taints[i].Effect # TaintEffectPreferNoSchedule => TaintTolerated(i))

\* C9: a NoExecute taint that no toleration matches makes
\* PodTolerationsMatchNodeTaints reject the node.
C9_UnmatchedNoExecuteRejects ==
    tpc = "PodToleratesTaints" =>
        ((\E i \in 1..Len(taints) :
             taints[i].Effect = TaintEffectNoExecute /\ ~TaintTolerated(i)) => ~tFits)

\* Taint i has a toleration with operator Exists, the same key and the same effect.
HasExistsToleration(i) ==
    \E j \in 1..Len(tolerations) :
        /\ tolerations[j].Operator = TolerationOpExists
        /\ tolerations[j].Key = taints[i].Key
        /\ tolerations[j].Effect = taints[i].Effect

PreferTaintKeys ==
    {taints[i].Key : i \in {n \in 1..Len(taints) :
                               taints[n].Effect = TaintEffectPreferNoSchedule}}

\* C10: wherever a toleration is matched against a taint, an Exists
\* toleration with the taint's key and effect matches it whatever the two
\* values are: for one taint and one such toleration the predicate accepts,
\* the taint is not counted intolerable, and a PreferNoSchedule taint is
\* counted as matching.
C10_ExistsIgnoresValue ==
    (Len(taints) = 1 /\ Len(tolerations) = 1 /\ HasExistsToleration(1)) =>
        /\ tpc = "PodToleratesTaints" => tFits
        /\ tpc = "countIntolerable" => tCount = 0
        /\ tpc = "compareTaintList" => tMatch = Cardinality(PreferTaintKeys)

\* ------------------------------------------------------------------------
\* Claims about PodFitsResources (SpecRes, SpecConc)
\* ------------------------------------------------------------------------

\* The requests of a pod and of a list of pods, summed container by container.
RECURSIVE SumOver(_, _)
SumOver(s, field) ==
    IF s = <<>> THEN 0 ELSE Head(s)[field] + SumOver(Tail(s), field)

RECURSIVE TotalOver(_, _)
TotalOver(pods, field) ==
    IF pods = <<>> THEN 0 ELSE SumOver(Head(pods), field) + TotalOver(Tail(pods), field)

TotalCPU == TotalOver(Append(rExisting, rPod), "milliCPU")
TotalMemory == TotalOver(Append(rExisting, rPod), "memory")

\* C2: for a candidate whose summed CPU or memory request is non-zero,
\* PodFitsResources returns (false, nil) if and only if the pod count
\* len(existingPods)+1 exceeds the pod capacity, or the summed CPU requests
\* exceed a non-zero CPU capacity, or the summed memory requests exceed a
\* non-zero memory capacity.
C2_RejectIffOverCapacity ==
    (/\ rpc = "done"
     /\ rNode.found
     /\ (SumOver(rPod, "milliCPU") # 0 \/ SumOver(rPod, "memory") # 0))
    => ((rFits = FALSE /\ rErr = "nil")
        <=> \/ Len(rExisting) + 1 > rNode.capacity.pods
            \/ (rNode.capacity.cpu # 0 /\ TotalCPU > rNode.capacity.cpu)
            \/ (rNode.capacity.memory # 0 /\ TotalMemory > rNode.capacity.memory))

\* A pod of two containers is rejected for CPU on a node whose memory
\* capacity 0 leaves the requested memory unlimited.
W_C2_RejectedForCPU ==
    /\ rpc = "done"
    /\ rNode.found
    /\ Len(rPod) = 2
    /\ Len(rExisting) = MaxExisting
    /\ Len(rExisting) + 1 <= rNode.capacity.pods
    /\ rNode.capacity.memory = 0
    /\ TotalMemory > 0
    /\ TotalCPU > rNode.capacity.cpu
    /\ rFits = FALSE
    /\ rErr = "nil"

\* What PodFitsResources gives for the node of worker w when the nodes are
\* evaluated one at a time.
SequentialResult(w) ==
    PodFitsResources(cPod, cNodes[w].existing,
                     [found |-> TRUE, capacity |-> cNodes[w].capacity], "")

\* C7: no predicate writes state shared between evaluations: in every
\* interleaving of the workers each node gets the fits result and the
\* reject category it gets when the nodes are evaluated one at a time.
C7_ConcurrentSameAsSequential ==
    (\A w \in Workers : cpc[w] = "recorded") =>
        \A w \in Workers :
            /\ cFits[w] = SequentialResult(w).fits
            /\ cReason[w] = (IF SequentialResult(w).fits THEN ""
                             ELSE SequentialResult(w).failed)

\* ------------------------------------------------------------------------
\* Claims about the priority functions (SpecPrio)
\* ------------------------------------------------------------------------

\* An invocation of CalculateInterPodAffinityPriority has returned a list.
InterPodReturned == pFn = "ipa" /\ ppc # "init" /\ ~pErr

\* The final total of node i: the sum of the topology counts of its labels.
FinalTotal(i) ==
    LET keys == DOMAIN pNodes[i].Labels
        F[S \in SUBSET keys] ==
            IF S = {} THEN 0
            ELSE LET k == CHOOSE x \in S : TRUE
                 IN  pOut.topologyCounts[<<k, pNodes[i].Labels[k]>>] + F[S \ {k}]
    IN  F[keys]

FinalTotals == {FinalTotal(i) : i \in 1..Len(pNodes)}
LargestOf(S) == CHOOSE x \in S : \A y \in S : y <= x
SmallestOf(S) == CHOOSE x \in S : \A y \in S : x <= y

\* Node i has labels whose topology counts have opposite signs.
MixedSigns(i) ==
    \E k1, k2 \in DOMAIN pNodes[i].Labels :
        /\ pOut.topologyCounts[<<k1, pNodes[i].Labels[k1]>>] > 0
        /\ pOut.topologyCounts[<<k2, pNodes[i].Labels[k2]>>] < 0

\* C3 as stated: with max and min the largest and the smallest final total,
\* every node scores floor(10 * (total - min) / (max - min)) when max > min
\* and 0 otherwise.
C3_ScoreBetweenFinalTotals ==
    InterPodReturned =>
        LET max == LargestOf(FinalTotals)
            min == SmallestOf(FinalTotals)
        IN  \A i \in 1..Len(pNodes) :
                pResult[i].Score = IF max > min
                                   THEN (10 * (FinalTotal(i) - min)) \div (max - min)
                                   ELSE 0

\* C3, amended: max and min are the largest and the smallest value that the
\* running total of any node takes while the topology counts are added up,
\* both starting at 0. So max >= 0 >= min, every final total lies between
\* them, and when no node has labels with counts of opposite signs max is
\* the larger of 0 and the largest final total and min the smaller of 0 and
\* the smallest final total. Every node scores
\* floor(10 * (total - min) / (max - min)) when max > min and 0 otherwise.
C3_ScoreBetweenRunningExtremes ==
    InterPodReturned =>
        LET max == pOut.maxCount
            min == pOut.minCount
            hi == LargestOf(FinalTotals \cup {0})
            lo == SmallestOf(FinalTotals \cup {0})
        IN  /\ min <= lo /\ hi <= max
            /\ (\A i \in 1..Len(pNodes) : ~MixedSigns(i)) => (max = hi /\ min = lo)
            /\ \A i \in 1..Len(pNodes) :
                  /\ pOut.counts[pNodes[i].Name] = FinalTotal(i)
                  /\ pResult[i].Score = IF max > min
                                        THEN (10 * (FinalTotal(i) - min)) \div (max - min)
                                        ELSE 0

\* Two nodes with different positive totals and no negative one: the
\* smaller total does not score 0.
W_C3_PositiveTotals ==
    /\ InterPodReturned
    /\ Len(pNodes) = 2
    /\ FinalTotal(1) > FinalTotal(2)
    /\ FinalTotal(2) > 0
    /\ pOut.minCount = 0
    /\ pResult[1].Score = 10
    /\ pResult[2].Score > 0

\* The candidate carries one preferred term with a non-empty topology key
\* and nothing else; no placed pod has an affinity.
OneSoftTerm(terms, others) ==
    /\ InterPodReturned
    /\ ~pPod.Affinity.err
    /\ Len(terms) = 1
    /\ others = <<>>
    /\ pPod.Affinity.Required = <<>>
    /\ terms[1].PodAffinityTerm.TopologyKey # ""
    /\ \A j \in 1..Len(pPods) : pPods[j].Affinity = NoAffinity

\* The placed pods that match the term, lie in its namespace set and whose
\* node has the value of node i under the topology key.
MatchingPlaced(term, i) ==
    {j \in 1..Len(pPods) :
        /\ SelectorMatches(term.LabelSelector, pPods[j].Labels)
        /\ (term.Namespaces.isNil => pPods[j].Namespace = pPod.Namespace)
        /\ (~term.Namespaces.isNil /\ term.Namespaces.names # {}
                => pPods[j].Namespace \in term.Namespaces.names)
        /\ \E n \in 1..Len(pNodes) :
              /\ pNodes[n].Name = pPods[j].NodeName
              /\ GetLabel(pNodes[n].Labels, term.TopologyKey) # ""
              /\ GetLabel(pNodes[n].Labels, term.TopologyKey)
                     = GetLabel(pNodes[i].Labels, term.TopologyKey)}

\* C4: for a candidate with one soft affinity term of weight w and a
\* non-empty topology key, the total of node N is w times the number of
\* placed pods that match the term, lie in its namespaces and share N's
\* topology value; for a soft anti-affinity term it is minus that. The
\* total does not depend on how many other nodes share N's topology value.
C4_TotalIsWeightTimesMatches ==
    /\ OneSoftTerm(pPod.Affinity.Preferred, pPod.Affinity.AntiPreferred) =>
          \A i \in 1..Len(pNodes) :
              pOut.counts[pNodes[i].Name] =
                  pPod.Affinity.Preferred[1].Weight
                      * Cardinality(MatchingPlaced(
                            pPod.Affinity.Preferred[1].PodAffinityTerm, i))
    /\ OneSoftTerm(pPod.Affinity.AntiPreferred, pPod.Affinity.Preferred) =>
          \A i \in 1..Len(pNodes) :
              pOut.counts[pNodes[i].Name] =
                  0 - pPod.Affinity.AntiPreferred[1].Weight
                      * Cardinality(MatchingPlaced(
                            pPod.Affinity.AntiPreferred[1].PodAffinityTerm, i))

\* One placed pod with one required term on the topology key region, and a
\* candidate without affinity.
OneHardTerm ==
    /\ InterPodReturned
    /\ pPod.Affinity = NoAffinity
    /\ Len(pPods) = 1
    /\ Len(pPods[1].Affinity.Required) = 1
    /\ pPods[1].Affinity.Required[1].TopologyKey = "region"

\* C5: a placed pod P with a hard affinity term adds weight to node N
\* exactly when the candidate's labels match the selector of P's term and
\* P's node shares the term's topology value with N, whatever the labels of
\* P; so with P on machine1 in China and a candidate labelled security=S1,
\* machine1 in China scores strictly higher than machine2 in India.
C5_HardTermMatchesCandidate ==
    OneHardTerm =>
        LET term == pPods[1].Affinity.Required[1]
            host == GetNodeInfo(pNodes, pPods[1].NodeName)
        IN  /\ \A i \in 1..Len(pNodes) :
                  pOut.counts[pNodes[i].Name] > 0
                      <=> /\ SelectorMatches(term.LabelSelector, pPod.Labels)
                          /\ NodesHaveSameTopologyKey(host, pNodes[i], "region")
            /\ ( /\ Len(pNodes) = 2
                 /\ pNodes[1].Labels = [region |-> "China"]
                 /\ pNodes[2].Labels = [region |-> "India"]
                 /\ pPods[1].NodeName = pNodes[1].Name
                 /\ pPod.Labels = [security |-> "S1"] )
                   => pResult[1].Score > pResult[2].Score

\* C6: two invocations on the same candidate, placed pods and nodes return
\* the same HostPriority list, whatever the order in which the entries of
\* the topologyCounts map are visited.
C6_SameInputsSameResult ==
    ppc = "again" => (pResult = pPrev)

\* C8: every score the three priority functions return lies in 0..10.
C8_ScoresWithinRange ==
    (ppc # "init" /\ ~pErr) =>
        \A i \in 1..Len(pNodes) :
            /\ pResult[i].Host = pNodes[i].Name
            /\ pResult[i].Score \in 0..maxPriority

\* Anti-affinity made a total negative while another node got nothing.
W_C8_NegativeTotalAndUntouchedNode ==
    /\ InterPodReturned
    /\ Len(pPod.Affinity.AntiPreferred) = 1
    /\ Len(pNodes) = 2
    /\ pOut.counts[pNodes[1].Name] < 0
    /\ pNodes[2].Labels = NoLabels
    /\ pResult[1].Score = 0
    /\ pResult[2].Score = 10

\* ------------------------------------------------------------------------
\* Claims about the reject category and about pods without requests (SpecRes)
\* ------------------------------------------------------------------------

\* C11: whenever PodFitsResources rejects with (false, nil),
\* FailedResourceType is PodExceedsMaxPodNumber if len(existingPods)+1
\* exceeds the pod capacity, otherwise PodExceedsFreeCPU if the summed CPU
\* requests of the existing pods and the candidate exceed the (non-zero) CPU
\* capacity, otherwise PodExceedsFreeMemory.
C11_RejectCategoryFollowsSums ==
    (rpc = "done" /\ rNode.found /\ rFits = FALSE /\ rErr = "nil")
    => FailedResourceType =
          IF Len(rExisting) + 1 > rNode.capacity.pods
          THEN PodExceedsMaxPodNumber
          ELSE IF rNode.capacity.cpu # 0 /\ TotalCPU > rNode.capacity.cpu
          THEN PodExceedsFreeCPU
          ELSE PodExceedsFreeMemory

\* C12: a pod whose summed CPU request and summed memory request are both
\* zero is accepted whenever len(existingPods)+1 does not exceed the pod
\* capacity of the node, whatever the existing pods request.
C12_ZeroRequestPodAccepted ==
    (/\ rpc = "done"
     /\ rNode.found
     /\ SumOver(rPod, "milliCPU") = 0
     /\ SumOver(rPod, "memory") = 0
     /\ Len(rExisting) + 1 <= rNode.capacity.pods)
    => (rFits = TRUE /\ rErr = "nil")

\* A pod of two containers without requests is accepted on a node whose
\* existing pods already request more CPU and more memory than it has.
W_C12_AcceptedOnOvercommittedNode ==
    /\ rpc = "done"
    /\ rNode.found
    /\ Len(rPod) = 2
    /\ SumOver(rPod, "milliCPU") = 0
    /\ SumOver(rPod, "memory") = 0
    /\ rNode.capacity.cpu # 0
    /\ rNode.capacity.memory # 0
    /\ TotalOver(rExisting, "milliCPU") > rNode.capacity.cpu
    /\ TotalOver(rExisting, "memory") > rNode.capacity.memory
    /\ rFits = TRUE
    /\ rErr = "nil"

\* ------------------------------------------------------------------------
\* Claims about PodFitsHostPorts and NoDiskConflict (SpecPred)
\* ------------------------------------------------------------------------

\* The host ports the containers of a pod list.
HostPortsOf(pod) ==
    UNION {{pod.Containers[c].Ports[k] : k \in 1..Len(pod.Containers[c].Ports)} :
              c \in 1..Len(pod.Containers)}

\* C13: PodFitsHostPorts returns false if and only if some non-zero host
\* port of a container of the candidate equals a host port of a container
\* of an existing pod; host port 0 of the candidate never conflicts.
C13_RejectIffNonZeroPortShared ==
    (qFn = "ports" /\ qpc = "done")
    => /\ qErr = "nil"
       /\ (qFits = FALSE)
          <=> \E port \in HostPortsOf(qPod) :
                 /\ port # 0
                 /\ \E e \in 1..Len(qExisting) : port \in HostPortsOf(qExisting[e])

\* A candidate of two containers that lists host port 0 is accepted on a
\* node where an existing pod lists host port 0 too.
W_C13_PortZeroOnBothSides ==
    /\ qFn = "ports"
    /\ qpc = "done"
    /\ Len(qPod.Containers) = 2
    /\ 0 \in HostPortsOf(qPod)
    /\ \E port \in HostPortsOf(qPod) : port # 0
    /\ \E e \in 1..Len(qExisting) : 0 \in HostPortsOf(qExisting[e])
    /\ qFits = TRUE

\* Whether volume v of the candidate and volume w of an existing pod are in
\* conflict.
VolumesConflict(v, w) ==
    \/ /\ v.kind = "gce" /\ w.kind = "gce"
       /\ v.PDName = w.PDName
       /\ ~(v.ReadOnly /\ w.ReadOnly)
    \/ /\ v.kind = "aws" /\ w.kind = "aws"
       /\ v.VolumeID = w.VolumeID
    \/ /\ v.kind = "rbd" /\ w.kind = "rbd"
       /\ v.RBDPool = w.RBDPool
       /\ v.RBDImage = w.RBDImage
       /\ {v.CephMonitors[i] : i \in 1..Len(v.CephMonitors)}
          \cap {w.CephMonitors[i] : i \in 1..Len(w.CephMonitors)} # {}

\* C14: NoDiskConflict returns false if and only if some volume of the
\* candidate and some volume of an existing pod are both GCE-PD with the same
\* disk name and not both read-only, or both AWS-EBS with the same volume id,
\* or both Ceph-RBD with the same pool, the same image and a common monitor.
C14_RejectIffVolumesConflict ==
    (qFn = "disk" /\ qpc = "done")
    => /\ qErr = "nil"
       /\ (qFits = FALSE)
          <=> \E ix \in 1..Len(qPod.Volumes), e \in 1..Len(qExisting) :
                 \E wx \in 1..Len(qExisting[e].Volumes) :
                    VolumesConflict(qPod.Volumes[ix], qExisting[e].Volumes[wx])

\* The candidate is accepted although it mounts, read-only, a GCE disk that
\* an existing pod mounts read-only, and shares the name of its second
\* volume with a volume of another kind.
W_C14_ReadOnlyMountsShareDisk ==
    /\ qFn = "disk"
    /\ qpc = "done"
    /\ Len(qPod.Volumes) = 2
    /\ \E ix \in 1..2, e \in 1..Len(qExisting) :
          /\ qPod.Volumes[ix].kind = "gce"
          /\ qPod.Volumes[ix].ReadOnly
          /\ qExisting[e].Volumes[1] = qPod.Volumes[ix]
    /\ \E ix \in 1..2, e \in 1..Len(qExisting) :
          /\ qPod.Volumes[ix].kind = "aws"
          /\ qExisting[e].Volumes[1].kind = "gce"
          /\ qExisting[e].Volumes[1].PDName = qPod.Volumes[ix].VolumeID
    /\ qFits = TRUE

\* ------------------------------------------------------------------------
\* Claims about the VolumeZone predicate (SpecPred)
\* ------------------------------------------------------------------------

ZoneKeys == {LabelZoneFailureDomain, LabelZoneRegion}

\* The PVC-backed volumes of the candidate.
ClaimVolumes == {i \in 1..Len(qPod.Volumes) : qPod.Volumes[i].kind = "pvc"}

ClaimOf(i) == qInfo.pvcs[<<qPod.Namespace, qPod.Volumes[i].ClaimName>>]

\* Every claim of the candidate is named, found and bound, and the volume
\* it is bound to is found.
ClaimsResolve ==
    \A i \in ClaimVolumes :
        /\ qPod.Volumes[i].ClaimName # ""
        /\ ClaimOf(i).status = "ok"
        /\ ClaimOf(i).VolumeName # ""
        /\ qInfo.pvs[ClaimOf(i).VolumeName].status = "ok"

\* Some claim of the candidate is bound to a volume with a zone or region
\* label whose value is not the node's value for that key (a key the node
\* lacks reads as the empty value).
SomeZoneLabelDiffers ==
    \E i \in ClaimVolumes :
        LET pvLabels == qInfo.pvs[ClaimOf(i).VolumeName].Labels
        IN  \E k \in ZoneKeys \cap DOMAIN pvLabels :
               pvLabels[k] # GetLabel(qInfo.nodes[qNode].Labels, k)

\* C15: when the node is found, a node with neither the zone nor the region
\* label is accepted for every pod, whatever its claims resolve to; a node
\* with one of them is, when all claims resolve, rejected with (false, nil)
\* if and only if some PVC-backed volume is bound to a PV with a zone or
\* region label that differs from the node's value for the key, and accepted
\* otherwise.
C15_ZoneRejectIffLabelDiffers ==
    (qFn = "zone" /\ qpc = "done" /\ qInfo.nodes[qNode].status = "ok")
    => LET nodeLabels == qInfo.nodes[qNode].Labels
       IN  IF ZoneKeys \cap DOMAIN nodeLabels = {}
           THEN qFits = TRUE /\ qErr = "nil"
           ELSE ClaimsResolve
                => /\ qErr = "nil"
                   /\ (qFits = FALSE) <=> SomeZoneLabelDiffers

\* A node with the zone label only is rejected for a pod whose first volume
\* is not a claim and whose second volume is bound to a PV whose zone label
\* agrees with the node and whose region label the node does not have.
W_C15_RegionLabelMissingOnNode ==
    /\ qFn = "zone"
    /\ qpc = "done"
    /\ qInfo.nodes[qNode].status = "ok"
    /\ DOMAIN qInfo.nodes[qNode].Labels = {LabelZoneFailureDomain}
    /\ Len(qPod.Volumes) = 2
    /\ ClaimVolumes = {2}
    /\ ClaimsResolve
    /\ LET pvLabels == qInfo.pvs[ClaimOf(2).VolumeName].Labels
       IN  /\ DOMAIN pvLabels = ZoneKeys
           /\ pvLabels[LabelZoneFailureDomain] =
                 qInfo.nodes[qNode].Labels[LabelZoneFailureDomain]
    /\ qFits = FALSE
    /\ qErr = "nil"

\* ------------------------------------------------------------------------
\* Claims about CheckServiceAffinity (SpecPred)
\* ------------------------------------------------------------------------

AffinityKeysL == {qInfo.labels[i] : i \in 1..Len(qInfo.labels)}

\* The node-selector of the pod has every key of L.
SelectorCoversL == \A l \in AffinityKeysL : l \in DOMAIN qPod.NodeSelector

\* The listed pods of the namespace of the pod that the selector of its
\* first service selects, by position in the list.
SameServicePeers ==
    {i \in 1..Len(qInfo.pods.items) :
        /\ qInfo.pods.items[i].Namespace = qPod.Namespace
        /\ \A k \in DOMAIN qInfo.services.items[1].Selector :
              /\ k \in DOMAIN qInfo.pods.items[i].Labels
              /\ qInfo.pods.items[i].Labels[k] = qInfo.services.items[1].Selector[k]}

FirstPeer == qInfo.pods.items[CHOOSE i \in SameServicePeers :
                                 \A j \in SameServicePeers : i <= j]

\* The lookups the predicate needs succeed.
AffinityLookupsSucceed ==
    /\ qInfo.nodes[qNode].status = "ok"
    /\ \/ SelectorCoversL
       \/ /\ qInfo.services.status = "ok"
          /\ qInfo.pods.status = "ok"
          /\ SameServicePeers # {} => qInfo.nodes[FirstPeer.NodeName].status = "ok"

\* Key l of L is given a value by the node-selector or, failing that, by
\* the node of the first peer.
ResolvedByPeer(l) ==
    /\ l \notin DOMAIN qPod.NodeSelector
    /\ SameServicePeers # {}
    /\ l \in DOMAIN qInfo.nodes[FirstPeer.NodeName].Labels

ImplicitValue(l) ==
    IF l \in DOMAIN qPod.NodeSelector THEN qPod.NodeSelector[l]
    ELSE qInfo.nodes[FirstPeer.NodeName].Labels[l]

\* C16: CheckServiceAffinity accepts the node if and only if its labels
\* contain every (key, value) of the implicit selector: a key of L present in
\* the node-selector has the node-selector's value, a key it lacks has the
\* value of that label on the node hosting the first same-namespace pod of the
\* pod's first service, and a key resolved by neither is unconstrained.
C16_AcceptIffImplicitSelectorMatches ==
    (qFn = "affinity" /\ qpc = "done" /\ AffinityLookupsSucceed)
    => /\ qErr = "nil"
       /\ (qFits = TRUE)
          <=> \A l \in AffinityKeysL :
                 (l \in DOMAIN qPod.NodeSelector \/ ResolvedByPeer(l))
                 => /\ l \in DOMAIN qInfo.nodes[qNode].Labels
                    /\ qInfo.nodes[qNode].Labels[l] = ImplicitValue(l)

\* The node is accepted for a pod whose node-selector gives the region and
\* not the zone, while the first peer is the second listed pod and runs on
\* a node of another region.
W_C16_PeerFillsZoneOnly ==
    /\ qFn = "affinity"
    /\ qpc = "done"
    /\ AffinityLookupsSucceed
    /\ AffinityKeysL = {"region", "zone"}
    /\ DOMAIN qPod.NodeSelector = {"region"}
    /\ SameServicePeers = {2}
    /\ ResolvedByPeer("zone")
    /\ "region" \in DOMAIN qInfo.nodes[FirstPeer.NodeName].Labels
    /\ qInfo.nodes[FirstPeer.NodeName].Labels["region"] # qPod.NodeSelector["region"]
    /\ qFits = TRUE

\* ------------------------------------------------------------------------
\* Claim about failed lookups of the predicates (SpecPred)
\* ------------------------------------------------------------------------

\* The lookup of claim volume i, or of the volume it is bound to, fails.
ClaimLookupFails(i) ==
    /\ qPod.Volumes[i].ClaimName # ""
    /\ \/ ClaimOf(i).status = "err"
       \/ /\ ClaimOf(i).status = "ok"
          /\ ClaimOf(i).VolumeName # ""
          /\ qInfo.pvs[ClaimOf(i).VolumeName].status = "err"

\* Claim volume j resolves and its PV agrees with the node, so that the
\* predicate goes on to the next volume.
ClaimPasses(j) ==
    /\ qPod.Volumes[j].ClaimName # ""
    /\ ClaimOf(j).status = "ok"
    /\ ClaimOf(j).VolumeName # ""
    /\ qInfo.pvs[ClaimOf(j).VolumeName].status = "ok"
    /\ LET pvLabels == qInfo.pvs[ClaimOf(j).VolumeName].Labels
       IN  \A k \in ZoneKeys \cap DOMAIN pvLabels :
              pvLabels[k] = GetLabel(qInfo.nodes[qNode].Labels, k)

\* A lookup that the VolumeZone predicate makes fails.
ZoneLookupFails ==
    \/ qInfo.nodes[qNode].status = "err"
    \/ /\ qInfo.nodes[qNode].status = "ok"
       /\ ZoneKeys \cap DOMAIN qInfo.nodes[qNode].Labels # {}
       /\ \E i \in ClaimVolumes :
             /\ ClaimLookupFails(i)
             /\ \A j \in ClaimVolumes : j < i => ClaimPasses(j)

\* A lookup that CheckServiceAffinity makes fails.
AffinityLookupFails ==
    \/ qInfo.nodes[qNode].status = "err"
    \/ /\ ~SelectorCoversL
       /\ \/ qInfo.services.status = "err"
          \/ /\ qInfo.services.status = "ok"
             /\ \/ qInfo.pods.status = "err"
                \/ /\ qInfo.pods.status = "ok"
                   /\ SameServicePeers # {}
                   /\ qInfo.nodes[FirstPeer.NodeName].status = "err"

\* C20: whenever a lookup made by a predicate fails (GetNodeInfo,
\* GetPersistentVolumeClaimInfo, GetPersistentVolumeInfo, PodLister.List,
\* ServiceLister.GetPodServices), the predicate returns a non-nil error
\* together with fits = false.
C20_FailedLookupReturnsError ==
    (/\ qpc = "done"
     /\ \/ qFn = "zone" /\ ZoneLookupFails
        \/ qFn = "affinity" /\ AffinityLookupFails)
    => (qFits = FALSE /\ qErr # "nil")

\* ------------------------------------------------------------------------
\* Claims about the scores of the priority functions (SpecPrio)
\* ------------------------------------------------------------------------

\* One entry per listed node, in lister order.
OneEntryPerNode ==
    /\ Len(pResult) = Len(pNodes)
    /\ \A i \in 1..Len(pNodes) : pResult[i].Host = pNodes[i].Name

\* The sum of the weights of the soft node-affinity terms of the pod whose
\* selector matches the labels of node i.
RECURSIVE WeightOfMatching(_, _)
WeightOfMatching(terms, nodeLabels) ==
    IF terms = <<>> THEN 0
    ELSE (IF /\ ~Head(terms).MatchExpressions.err
             /\ SelectorMatches(Head(terms).MatchExpressions, nodeLabels)
          THEN Head(terms).Weight ELSE 0)
         + WeightOfMatching(Tail(terms), nodeLabels)

NodeAffinityTally(i) == WeightOfMatching(pPod.SoftNodeAffinity, pNodes[i].Labels)

LargestNodeAffinityTally ==
    LargestOf({0} \cup {NodeAffinityTally(i) : i \in 1..Len(pNodes)})

\* C17: CalculateNodeAffinityPriority returns one entry per listed node, in
\* lister order, with score floor(10 * tally / M), where tally is the sum of
\* the weights of the soft terms whose selector matches the node and M is the
\* largest tally; with M = 0 every node scores 0 and with M > 0 some node
\* scores 10.
C17_NodeAffinityScoreIsScaledTally ==
    (pFn = "na" /\ ppc # "init" /\ ~pErr)
    => /\ OneEntryPerNode
       /\ \A i \in 1..Len(pNodes) :
             pResult[i].Score =
                IF LargestNodeAffinityTally = 0 THEN 0
                ELSE (10 * NodeAffinityTally(i)) \div LargestNodeAffinityTally
       /\ LargestNodeAffinityTally > 0
          => \E i \in 1..Len(pNodes) : pResult[i].Score = 10

\* Two terms of different weights match different nodes, and the node that
\* only the lighter one matches scores between 0 and 10.
W_C17_TwoTermsUnequalTallies ==
    /\ pFn = "na"
    /\ ppc # "init"
    /\ ~pErr
    /\ Len(pPod.SoftNodeAffinity) = 2
    /\ pPod.SoftNodeAffinity[1].Weight # pPod.SoftNodeAffinity[2].Weight
    /\ Len(pNodes) >= 2
    /\ \E i \in 1..Len(pNodes) : pResult[i].Score \in 1..9
    /\ \E i \in 1..Len(pNodes) : pResult[i].Score = 10

\* A toleration of the pod tolerates the PreferNoSchedule taint t.
PreferTaintTolerated(t) ==
    \E j \in 1..Len(pPod.Tolerations) :
        /\ pPod.Tolerations[j].Effect = TaintEffectPreferNoSchedule
        /\ pPod.Tolerations[j].Key = t.Key
        /\ \/ pPod.Tolerations[j].Operator = TolerationOpExists
           \/ /\ pPod.Tolerations[j].Operator \in {"", TolerationOpEqual}
              /\ pPod.Tolerations[j].Value = t.Value

\* The PreferNoSchedule taints of node i that no toleration of the pod
\* tolerates.
IntolerableCount(i) ==
    Cardinality({k \in 1..Len(pNodes[i].Taints) :
                    /\ pNodes[i].Taints[k].Effect = TaintEffectPreferNoSchedule
                    /\ ~PreferTaintTolerated(pNodes[i].Taints[k])})

LargestIntolerableCount ==
    LargestOf({0} \cup {IntolerableCount(i) : i \in 1..Len(pNodes)})

\* C18: ComputeTaintTolerationPriority gives each listed node the score
\* floor(10 * (1 - count / C)), where count is the number of its
\* PreferNoSchedule taints that no toleration tolerates and C the largest
\* count; with C = 0 every node scores 10; a node with count 0 scores 10, a
\* node with count C > 0 scores 0, and a larger count never scores higher.
C18_TaintScoreIsScaledCount ==
    (pFn = "tt" /\ ppc # "init" /\ ~pErr)
    => /\ OneEntryPerNode
       /\ \A i \in 1..Len(pNodes) :
             pResult[i].Score =
                IF LargestIntolerableCount = 0 THEN 10
                ELSE (10 * (LargestIntolerableCount - IntolerableCount(i)))
                     \div LargestIntolerableCount
       /\ \A i \in 1..Len(pNodes) :
             IntolerableCount(i) = 0 => pResult[i].Score = 10
       /\ \A i \in 1..Len(pNodes) :
             (LargestIntolerableCount > 0
              /\ IntolerableCount(i) = LargestIntolerableCount)
             => pResult[i].Score = 0
       /\ \A i, j \in 1..Len(pNodes) :
             IntolerableCount(i) > IntolerableCount(j)
             => pResult[i].Score <= pResult[j].Score

\* The (placed pod, label) pairs that count for a host: the pod is on the
\* host and in the namespace of the candidate, and the label is an entry of
\* the candidate's affinity-selector.
AffinityTally(host) ==
    Cardinality({pair \in (1..Len(pPods)) \X {"foo", "bar", "baz", "blah"} :
                    /\ pPods[pair[1]].NodeName = host
                    /\ pPods[pair[1]].Namespace = pPod.Namespace
                    /\ pair[2] \in DOMAIN pPods[pair[1]].Labels
                    /\ pair[2] \in DOMAIN pPod.AffinitySelector
                    /\ pPods[pair[1]].Labels[pair[2]] = pPod.AffinitySelector[pair[2]]})

LargestAffinityTally ==
    LargestOf({0} \cup {AffinityTally(pPods[i].NodeName) : i \in 1..Len(pPods)})

\* C19: ServiceAffinity.CalculateAffinityPriority gives each listed node the
\* score floor(10 * tally / M), where the tally of a host counts the (placed
\* pod, label) pairs of the host that are in the candidate's namespace and
\* equal an entry of its affinity-selector, and M is the largest tally; with
\* M = 0 every node scores 0; pods of another namespace add to no tally.
C19_ServiceAffinityScoreIsScaledTally ==
    (pFn = "sa" /\ ppc # "init" /\ ~pErr)
    => /\ OneEntryPerNode
       /\ \A i \in 1..Len(pNodes) :
             pResult[i].Score =
                IF LargestAffinityTally = 0 THEN 0
                ELSE (10 * AffinityTally(pNodes[i].Name)) \div LargestAffinityTally

\* A pod with two matching labels and a pod with one are on different
\* nodes: the scores are 10 and 5.
W_C19_TwoLabelsAgainstOne ==
    /\ pFn = "sa"
    /\ ppc # "init"
    /\ ~pErr
    /\ Len(pNodes) = 2
    /\ Len(pPods) = 2
    /\ AffinityTally(pNodes[1].Name) = 2
    /\ AffinityTally(pNodes[2].Name) = 1
    /\ pResult[1].Score = 10
    /\ pResult[2].Score = 5

\* ------------------------------------------------------------------------
\* Claims about defects in annotations and selectors (SpecPrio)
\* ------------------------------------------------------------------------

\* The pod with an affinity annotation that cannot be parsed read as a pod
\* without affinity terms.
ReadAsNoAffinity(pod) ==
    IF pod.Affinity.err THEN [pod EXCEPT !.Affinity = NoAffinity] ELSE pod

SomeAnnotationMalformed ==
    pPod.Affinity.err \/ \E j \in 1..Len(pPods) : pPods[j].Affinity.err

\* What CalculateInterPodAffinityPriority can return when the pods with a
\* malformed annotation are read as pods without affinity terms.
ResultsWithoutMalformed ==
    CalculateInterPodAffinityPriority(
        ReadAsNoAffinity(pPod), pNodes,
        [j \in 1..Len(pPods) |-> ReadAsNoAffinity(pPods[j])])

\* C21: when the affinity annotation of the candidate or of a placed pod
\* cannot be parsed, CalculateInterPodAffinityPriority returns no error and
\* one score per listed node, the scores it gives when that pod has no
\* affinity terms and all other pods count as they do.
C21_MalformedAnnotationIgnored ==
    (/\ pFn = "ipa"
     /\ ppc # "init"
     /\ SomeAnnotationMalformed
     /\ \A r \in ResultsWithoutMalformed : ~r.err)
    => /\ ~pErr
       /\ Len(pResult) = Len(pNodes)
       /\ \E r \in ResultsWithoutMalformed : r.result = pResult

\* The weighted terms and the terms whose requirements give a selector.
GoodWeighted(weightedTerms) ==
    SelectSeq(weightedTerms, LAMBDA w : ~w.PodAffinityTerm.LabelSelector.err)

GoodTerms(terms) == SelectSeq(terms, LAMBDA t : ~t.LabelSelector.err)

GoodSoftTerms(softTerms) == SelectSeq(softTerms, LAMBDA t : ~t.MatchExpressions.err)

\* The pod without the terms whose requirements give no selector.
WithoutBadTerms(pod) ==
    [pod EXCEPT !.Affinity.Required = GoodTerms(@),
                !.Affinity.Preferred = GoodWeighted(@),
                !.Affinity.AntiPreferred = GoodWeighted(@),
                !.SoftNodeAffinity = GoodSoftTerms(@)]

SomeTermWithoutSelector ==
    \/ WithoutBadTerms(pPod) # pPod
    \/ \E j \in 1..Len(pPods) : WithoutBadTerms(pPods[j]) # pPods[j]

\* What the priority function of the state can return for the pods without
\* the terms whose requirements give no selector.
ResultsWithoutBadTerms ==
    IF pFn = "na"
    THEN {CalculateNodeAffinityPriority(WithoutBadTerms(pPod), pNodes)}
    ELSE CalculateInterPodAffinityPriority(
             WithoutBadTerms(pPod), pNodes,
             [j \in 1..Len(pPods) |-> WithoutBadTerms(pPods[j])])

\* C22: when the requirements of a term cannot be turned into a selector,
\* CalculateNodeAffinityPriority and CalculateInterPodAffinityPriority
\* return no error and one score per listed node, the scores they give
\* for the remaining terms alone.
C22_TermWithoutSelectorSkipped ==
    (/\ pFn \in {"na", "ipa"}
     /\ ppc # "init"
     /\ SomeTermWithoutSelector
     /\ \A r \in ResultsWithoutBadTerms : ~r.err)
    => /\ ~pErr
       /\ Len(pResult) = Len(pNodes)
       /\ \E r \in ResultsWithoutBadTerms : r.result = pResult

\* The part of C22 that concerns CalculateNodeAffinityPriority alone.
NodeAffinitySkipsTermWithoutSelector ==
    pFn = "na" => C22_TermWithoutSelectorSkipped

\* ------------------------------------------------------------------------
\* Claims about a node leaving the snapshot (SpecPred)
\* ------------------------------------------------------------------------

\* C23: after node A has left the node snapshot, with the placed pods left
\* as they are, a predicate returns for another node B the (fits, err) it
\* returned before; so does CheckServiceAffinity when its peer is on A.
C23_RemovedNodeLeavesOthersUnchanged ==
    (qpc = "done" /\ qRemoved # "")
    => (qFits = qBefore.fits /\ qErr = qBefore.err)

\* The part of C23 that concerns VolumeZoneChecker.predicate alone.
ZoneUnchangedByRemovedNode ==
    qFn = "zone" => C23_RemovedNodeLeavesOthersUnchanged

\* ------------------------------------------------------------------------
\* Claims about the taint command (SpecCli)
\* ------------------------------------------------------------------------

\* C24: after any sequence of successful taint commands on a node that
\* starts without taints, no two taints of the node have the same key and
\* the same effect.
C24_KeyAndEffectUniquePerNode ==
    kFn = "run"
    => \A i, j \in 1..Len(kNode.Taints) :
           (/\ kNode.Taints[i].Key = kNode.Taints[j].Key
            /\ kNode.Taints[i].Effect = kNode.Taints[j].Effect) => i = j

\* The places of "=" and ":" that cut arg into KEY=VALUE:EFFECT with a
\* qualified-name key, a valid label value and one of the two effects.
TaintCuts(arg) ==
    {c \in (1..Len(arg)) \X (1..Len(arg)) :
        /\ c[1] < c[2]
        /\ arg[c[1]] = "="
        /\ arg[c[2]] = ":"
        /\ IsQualifiedName(SubSeq(arg, 1, c[1] - 1))
        /\ IsValidLabelValue(SubSeq(arg, c[1] + 1, c[2] - 1))
        /\ SubSeq(arg, c[2] + 1, Len(arg)) \in
               {<<TaintEffectNoSchedule>>, <<TaintEffectPreferNoSchedule>>}}

IsTaintArg(arg) == TaintCuts(arg) # {}

\* An argument KEY- that is not cut by "=" and ":".
IsRemoveArg(arg) ==
    HasSuffix(arg, "-") /\ ~(HasPiece(arg, "=") /\ HasPiece(arg, ":"))

TaintOfArg(arg) ==
    LET c == CHOOSE c \in TaintCuts(arg) : TRUE
    IN  [Key |-> SubSeq(arg, 1, c[1] - 1),
         Value |-> SubSeq(arg, c[1] + 1, c[2] - 1),
         Effect |-> arg[Len(arg)]]

\* The taints and the removals of the arguments, in the order of the arguments.
RECURSIVE TaintsOfArgs(_)
TaintsOfArgs(args) ==
    IF args = <<>> THEN <<>>
    ELSE (IF IsTaintArg(Head(args)) THEN <<TaintOfArg(Head(args))>> ELSE <<>>)
         \o TaintsOfArgs(Tail(args))

RECURSIVE RemovalsOfArgs(_)
RemovalsOfArgs(args) ==
    IF args = <<>> THEN <<>>
    ELSE (IF IsRemoveArg(Head(args))
          THEN <<SubSeq(Head(args), 1, Len(Head(args)) - 1)>> ELSE <<>>)
         \o RemovalsOfArgs(Tail(args))

ParseFails == kParsed.err /\ kParsed.taints = <<>> /\ kParsed.remove = <<>>

\* The rule of C25 without its examples of invalid arguments.
ParseTaintsFollowsShapes ==
    (kFn = "parse" /\ kpc = "done")
    => IF \A i \in 1..Len(kArgs) : IsTaintArg(kArgs[i]) \/ IsRemoveArg(kArgs[i])
       THEN /\ ~kParsed.err
            /\ kParsed.taints = TaintsOfArgs(kArgs)
            /\ kParsed.remove = RemovalsOfArgs(kArgs)
       ELSE ParseFails

\* An argument with the key Foo, or with the effect NoExecute.
HasKeyFoo(arg) ==
    /\ HasPiece(arg, "=")
    /\ HasPiece(arg, ":")
    /\ SubSeq(arg, 1, FirstIndex(arg, "=") - 1) = <<"Foo">>
HasEffectNoExecute(arg) ==
    /\ HasPiece(arg, "=")
    /\ Len(arg) > 1
    /\ arg[Len(arg)] = TaintEffectNoExecute
    /\ arg[Len(arg) - 1] = ":"

\* C25: parseTaints turns the arguments KEY=VALUE:EFFECT (qualified-name
\* key, valid label value, effect NoSchedule or PreferNoSchedule) into
\* taints and the arguments KEY- into removals, in argument order; when an
\* argument has another shape, an invalid key such as Foo or another effect
\* such as NoExecute, it returns an error and neither taints nor removals.
C25_ParseTaintsAllOrNothing ==
    /\ ParseTaintsFollowsShapes
    /\ (/\ kFn = "parse"
        /\ kpc = "done"
        /\ \E i \in 1..Len(kArgs) : HasKeyFoo(kArgs[i]) \/ HasEffectNoExecute(kArgs[i]))
       => ParseFails

\* The keys of a list of taints, and whether a taint is in a list.
KeysOf(taintList) == {taintList[i].Key : i \in 1..Len(taintList)}
TaintIn(t, taintList) == \E i \in 1..Len(taintList) : taintList[i] = t

RequestedKeys == KeysOf(kParsed.taints)
RemovedKeys == {kParsed.remove[i] : i \in 1..Len(kParsed.remove)}

\* A command that was parsed and whose update, if one was sent, the server
\* accepted.
CommandRan ==
    kFn = "run" /\ kpc = "done" /\ kErr \in {"nil", "overwrite", "reorganize"}

CommandFailed == kErr # "nil" /\ ~kSent

\* C26: without --overwrite a taint command fails, and sends no update,
\* if and only if a requested taint has the key of a taint of the node;
\* with --overwrite it succeeds, the new list holds the requested taints
\* in place of the old taints of their keys, and every old taint whose key
\* is neither requested nor removed is kept.
C26_OverwriteTogglesRejection ==
    CommandRan
    => IF ~kOverwrite
       THEN CommandFailed <=> (RequestedKeys \cap KeysOf(kOld.Taints) # {})
       ELSE /\ kErr = "nil"
            /\ \A i \in 1..Len(kParsed.taints) :
                   kParsed.taints[i].Key \notin RemovedKeys
                   => TaintIn(kParsed.taints[i], kNode.Taints)
            /\ \A j \in 1..Len(kOld.Taints) :
                   /\ (/\ kOld.Taints[j].Key \in RequestedKeys
                       /\ ~TaintIn(kOld.Taints[j], kParsed.taints))
                      => ~TaintIn(kOld.Taints[j], kNode.Taints)
                   /\ kOld.Taints[j].Key \notin (RequestedKeys \cup RemovedKeys)
                      => TaintIn(kOld.Taints[j], kNode.Taints)

\* C26 for the commands that remove nothing.
OverwriteTogglesRejectionOfAdds ==
    kParsed.remove = <<>> => C26_OverwriteTogglesRejection

\* C26 for the commands that remove only keys the node has, on a node
\* whose taints have different keys.
OverwriteTogglesRejectionOnDistinctKeys ==
    (/\ RemovedKeys \subseteq KeysOf(kOld.Taints) \ RequestedKeys
     /\ Len(kParsed.remove) = Cardinality(RemovedKeys)
     /\ Len(kOld.Taints) = Cardinality(KeysOf(kOld.Taints)))
    => C26_OverwriteTogglesRejection

\* C26 read against the node the server holds when the update arrives: a
\* command without --overwrite whose update is stored requested no key of a
\* taint of that node.
UpdateChecksServerNode ==
    [][\A c \in Commands :
           (/\ kCmds[c].pc = "got"
            /\ kCmds'[c].pc = "idle"
            /\ kErr' = "nil"
            /\ ~kOverwrite')
           => KeysOf(kParsed'.taints) \cap KeysOf(kNode.Taints) = {}]_vars

\* ------------------------------------------------------------------------
\* Claims about pods placed one after another (SpecSched)
\* ------------------------------------------------------------------------

\* The labels of the node on which the i-th pod of the service was placed.
PlacedNodeLabels(i) == sInfo.nodes[sPlaced[i].NodeName].Labels

AffinityKeysOfSnapshot == {sInfo.labels[i] : i \in 1..Len(sInfo.labels)}

\* C27: starting with no pod of the service placed, after any sequence of
\* placements each onto a node CheckServiceAffinity accepted, the nodes of
\* all placed pods of the service agree on the value of every label key of
\* s.labels, whichever peer the pod lister returns first and also when the
\* first pod landed on a node lacking a key. Two nodes are taken to disagree
\* only when both carry the key with different values.
C27_ServicePodsConverge ==
    sFn = "service" =>
        \A i \in 1..Len(sPlaced), j \in 1..Len(sPlaced), key \in AffinityKeysOfSnapshot :
            (key \in DOMAIN PlacedNodeLabels(i) /\ key \in DOMAIN PlacedNodeLabels(j))
                => PlacedNodeLabels(i)[key] = PlacedNodeLabels(j)[key]

\* The part of C27 that holds: when every node of the snapshot carries every
\* key of s.labels, the nodes of the placed pods carry the same values.
ServicePodsConvergeOnLabelledNodes ==
    (/\ sFn = "service"
     /\ \A n \in DOMAIN sInfo.nodes :
            AffinityKeysOfSnapshot \subseteq DOMAIN sInfo.nodes[n].Labels)
        => \A i \in 1..Len(sPlaced), j \in 1..Len(sPlaced), key \in AffinityKeysOfSnapshot :
               PlacedNodeLabels(i)[key] = PlacedNodeLabels(j)[key]

\* The sums of the requests of the containers of the placed pods.
RECURSIVE RequestsOf(_, _)
RequestsOf(containers, resource) ==
    IF containers = <<>> THEN 0
    ELSE (IF resource = "cpu" THEN Head(containers).milliCPU ELSE Head(containers).memory)
         + RequestsOf(Tail(containers), resource)

RECURSIVE PlacedSum(_, _)
PlacedSum(pods, resource) ==
    IF pods = <<>> THEN 0
    ELSE RequestsOf(Head(pods), resource) + PlacedSum(Tail(pods), resource)

\* C28: starting from a node with no pods, after any sequence of placements
\* that each put a pod on the node only when PodFitsResources accepted it
\* against the pods already there, the number of pods on the node never
\* exceeds its pod capacity, the summed CPU requests never exceed a non-zero
\* CPU capacity and the summed memory requests never exceed a non-zero
\* memory capacity.
C28_PlacementsStayWithinCapacity ==
    sFn = "resources" =>
        /\ Len(sPlaced) <= sInfo.capacity.pods
        /\ sInfo.capacity.cpu # 0 => PlacedSum(sPlaced, "cpu") <= sInfo.capacity.cpu
        /\ sInfo.capacity.memory # 0 =>
               PlacedSum(sPlaced, "memory") <= sInfo.capacity.memory

\* A node whose CPU and memory are used up by two or more placed pods with
\* room left in the pod count, on which the last pod asked for was rejected.
W_C28_FullNodeRejects ==
    /\ sFn = "resources"
    /\ Len(sPlaced) >= 2
    /\ Len(sPlaced) < sInfo.capacity.pods
    /\ sInfo.capacity.cpu # 0
    /\ PlacedSum(sPlaced, "cpu") = sInfo.capacity.cpu
    /\ sInfo.capacity.memory # 0
    /\ PlacedSum(sPlaced, "memory") = sInfo.capacity.memory
    /\ sLast = [fits |-> FALSE, err |-> "nil"]

\* C29: FailedResourceType is written only by a rejecting call of
\* PodFitsResources: a call that returns (false, nil) leaves the category of
\* its rejection in it (the pod count when the node is full, else CPU or
\* memory), and a call that accepts or that returns an error leaves it
\* unchanged, so it is never cleared.
C29_OnlyRejectingCallsWrite ==
    [][sFn = "resources" =>
          IF sLast' = [fits |-> FALSE, err |-> "nil"]
          THEN IF Len(sPlaced) + 1 > sInfo.capacity.pods
               THEN FailedResourceType' = PodExceedsMaxPodNumber
               ELSE FailedResourceType' \in {PodExceedsFreeCPU, PodExceedsFreeMemory}
          ELSE FailedResourceType' = FailedResourceType]_vars

\* After an accepting call the variable still names the failure of an
\* earlier pod.
W_C29_AcceptedButStillNamed ==
    /\ sFn = "resources"
    /\ sLast = [fits |-> TRUE, err |-> "nil"]
    /\ FailedResourceType # ""
    /\ sPlaced # <<>>

\* ------------------------------------------------------------------------
\* Claims about the ingress and ingress-point strategies (SpecReg)
\* ------------------------------------------------------------------------

\* C30: after a create followed by any sequence of updates, whatever
\* Generation and Status the submitted objects carry, the stored Generation
\* is 1 plus the number of updates that changed the spec, and the stored
\* Status is the empty one the create left.
C30_GenerationCountsSpecChanges ==
    gStored # <<>> =>
        /\ gStored.Generation = 1 + gChanges
        /\ gStored.Status = EmptyStatus

\* The part of C30 about Status: no update changes the stored Status.
StatusKeptByUpdates ==
    gStored # <<>> => gStored.Status = EmptyStatus

\* The part of C30 about PrepareForCreate and about updates that change the
\* spec: the Generation is 1 after the create and one more than the stored
\* one after an update with another spec.
GenerationRaisedBySpecChange ==
    [][/\ (gStored = <<>> /\ gStored' # <<>>) => gStored'.Generation = 1
       /\ (gStored # <<>> /\ gStored'.Spec # gStored.Spec)
              => gStored'.Generation = gStored.Generation + 1]_vars

====
